---- MODULE Spec2Model ----
(***************************************************************************)
(* The conversation session engine of the image chat client:               *)
(* chatReducer and the useChatSession hook (sendPrompt, addUploads,        *)
(* deleteMessage, reset, restore, the persistence effect), the two         *)
(* provider adapters (geminiClient, openaiClient) and the snapshot store.  *)
(*                                                                         *)
(* Text is a sequence of characters (one-character strings, or a token     *)
(* standing for a fixed run of characters). An optional field of a message *)
(* holds <<>> (parts, images) or Undefined (imageData) when it is absent.  *)
(***************************************************************************)
EXTENDS Integers, Sequences, FiniteSets, TLC

VARIABLES
    state,        \* the ChatState held by useReducer
    didPersist,   \* didPersistRef.current
    store,        \* localStorage slot gemini_chat_persist_v1 (raw content)
    guidancePref, \* localStorage slot gemini_force_image_guidance
    storeMode,    \* how localStorage.setItem behaves: "ok", "quota", "broken"
    apiType,      \* apiConfig.getType()
    configured,   \* apiConfig.getUrl() and apiConfig.getKey() both non-empty
    inflight,     \* provider calls awaiting their network response
    uploading,    \* addUploads calls awaiting toUploadItems
    nextId,       \* source of messageId()
    nextSession,  \* source of createSessionId()
    clock,        \* Date.now(), in ticks
    netCalls,     \* number of network requests issued so far
    lastOp,       \* the handler that ran last, and what it observed
    lastWrite,    \* what the last writePersistedChat returned and stored
    twin          \* the same session on a store that takes every snapshot write

vars == <<state, didPersist, store, guidancePref, storeMode, apiType, configured,
          inflight, uploading, nextId, nextSession, clock, netCalls, lastOp, lastWrite,
          twin>>

-----------------------------------------------------------------------------
(* Bounds of the model *)

MaxIds == 4
MaxInflight == 2
MaxSessions == 2
MaxClock == 1
MaxBatch == 1
MaxUploading == 2

(* Program constants *)

MaxUploads == 14

-----------------------------------------------------------------------------
(* Values *)

Null == "null"
Undefined == "undefined"

Modes == {"generate", "edit", "search"}
AspectRatios == {"1:1", "16:9"}
ImageSizes == {"1K", "2K", "4K"}

IsSpace(c) == c \in {" ", "\n"}

RECURSIVE TrimStart(_)
TrimStart(s) ==
    IF s = <<>> THEN s
    ELSE IF IsSpace(Head(s)) THEN TrimStart(Tail(s)) ELSE s

RECURSIVE TrimEnd(_)
TrimEnd(s) ==
    IF s = <<>> THEN s
    ELSE IF IsSpace(s[Len(s)]) THEN TrimEnd(SubSeq(s, 1, Len(s) - 1)) ELSE s

Trim(s) == TrimEnd(TrimStart(s))

StartsWith(s, p) == Len(s) >= Len(p) /\ SubSeq(s, 1, Len(p)) = p

RECURSIVE FirstLine(_)
FirstLine(s) ==
    IF s = <<>> \/ Head(s) = "\n" THEN <<>>
    ELSE <<Head(s)>> \o FirstLine(Tail(s))

RECURSIVE Join(_, _)
Join(texts, sep) ==
    IF texts = <<>> THEN <<>>
    ELSE IF Len(texts) = 1 THEN texts[1]
    ELSE texts[1] \o sep \o Join(Tail(texts), sep)

RECURSIVE Flatten(_)
Flatten(seqs) == IF seqs = <<>> THEN <<>> ELSE Head(seqs) \o Flatten(Tail(seqs))

Map(s, F(_)) == [i \in 1..Len(s) |-> F(s[i])]

(* A URL string `<scheme>:<mime>;base64,<data>`, kept as its pieces *)
DataUrl(mime, data) == [scheme |-> "data", mime |-> mime, data |-> data]

(* GeminiContentPart: {text}, {inline_data: {mime_type, data}} or {} *)
TextPart(t) == [type |-> "text", text |-> t, mime |-> "", data |-> "", thought |-> FALSE]
ThoughtPart(t) == [type |-> "text", text |-> t, mime |-> "", data |-> "", thought |-> TRUE]
InlinePart(mime, data) == [type |-> "inline", text |-> <<>>, mime |-> mime, data |-> data, thought |-> FALSE]
EmptyPart == [type |-> "empty", text |-> <<>>, mime |-> "", data |-> "", thought |-> FALSE]

HasText(p) == p.type = "text" /\ p.text # <<>>
HasInline(p) == p.type = "inline"

-----------------------------------------------------------------------------
(* History Reconciler *)

dataUrlToInlineData(dataUrl) ==
    IF dataUrl.scheme = "data" /\ dataUrl.mime # ""
    THEN <<[mimeType |-> dataUrl.mime, data |-> dataUrl.data]>>
    ELSE <<>>

(* variant: a user message without content gives an entry without segments *)
rebuildUserPartsBare(msg) ==
    LET textPart == IF msg.text # <<>> THEN <<TextPart(msg.text)>> ELSE <<>>
        inlines == Flatten(Map(msg.images, dataUrlToInlineData))
        toPart(inline) ==
            InlinePart(IF inline.mimeType # "" THEN inline.mimeType ELSE "image/png", inline.data)
    IN  textPart \o Map(inlines, toPart)

rebuildUserParts(msg) ==
    LET textPart == IF msg.text # <<>> THEN <<TextPart(msg.text)>> ELSE <<>>
        inlines == Flatten(Map(msg.images, dataUrlToInlineData))
        toPart(inline) ==
            InlinePart(IF inline.mimeType # "" THEN inline.mimeType ELSE "image/png", inline.data)
        parts == textPart \o Map(inlines, toPart)
    IN  IF Len(parts) > 0 THEN parts ELSE <<TextPart(<<>>)>>

(* variant: the text segment is always the plain display text *)
rebuildAssistantPartsPlainText(msg) ==
    LET textPart == IF msg.text # <<>> THEN <<TextPart(msg.text)>> ELSE <<>>
        imagePart ==
            IF msg.imageData # Undefined /\ msg.imageData # ""
            THEN <<InlinePart("image/png", msg.imageData)>> ELSE <<>>
        parts == textPart \o imagePart
    IN  IF Len(parts) > 0 THEN parts ELSE <<TextPart(<<>>)>>

rebuildAssistantParts(msg) ==
    LET kept == SelectSeq(msg.parts, LAMBDA p : p.text # <<>> /\ ~p.thought)
        textParts == Map(kept, LAMBDA p : p.text)
        textPart ==
            IF Len(textParts) > 0 THEN <<TextPart(Join(textParts, <<"\n", "\n">>))>>
            ELSE IF msg.text # <<>> THEN <<TextPart(msg.text)>>
            ELSE <<>>
        imagePart ==
            IF msg.imageData # Undefined /\ msg.imageData # ""
            THEN <<InlinePart("image/png", msg.imageData)>> ELSE <<>>
        parts == textPart \o imagePart
    IN  IF Len(parts) > 0 THEN parts ELSE <<TextPart(<<>>)>>

(* variant: a system notice gives an entry of the model *)
RECURSIVE rebuildHistoryWithNotices(_)
rebuildHistoryWithNotices(messages) ==
    IF messages = <<>> THEN <<>>
    ELSE LET msg == Head(messages)
             rest == rebuildHistoryWithNotices(Tail(messages))
         IN  IF msg.role = "user"
             THEN <<[role |-> "user", parts |-> rebuildUserParts(msg)]>> \o rest
             ELSE <<[role |-> "model", parts |-> rebuildAssistantParts(msg)]>> \o rest

RECURSIVE rebuildHistoryFromMessages(_)
rebuildHistoryFromMessages(messages) ==
    IF messages = <<>> THEN <<>>
    ELSE LET msg == Head(messages)
             rest == rebuildHistoryFromMessages(Tail(messages))
         IN  IF msg.role = "system" THEN rest
             ELSE IF msg.role = "user"
             THEN <<[role |-> "user", parts |-> rebuildUserParts(msg)]>> \o rest
             ELSE <<[role |-> "model", parts |-> rebuildAssistantParts(msg)]>> \o rest

(* variant: the scan runs from the oldest message and stops at the first image *)
RECURSIVE resolveFirstImageData(_)
resolveFirstImageData(messages) ==
    IF messages = <<>> THEN Null
    ELSE LET m == Head(messages)
         IN  IF m.role = "assistant" /\ m.imageData \notin {Undefined, ""}
             THEN m.imageData
             ELSE resolveFirstImageData(Tail(messages))

RECURSIVE resolveLastImageData(_)
resolveLastImageData(messages) ==
    IF messages = <<>> THEN Null
    ELSE LET m == messages[Len(messages)]
         IN  IF m.role = "assistant" /\ m.imageData # Undefined /\ m.imageData # ""
             THEN m.imageData
             ELSE resolveLastImageData(SubSeq(messages, 1, Len(messages) - 1))

-----------------------------------------------------------------------------
(* Persistence Manager: the JSON written to and read from the snapshot slot. *)
(* A JSON object is a record holding exactly the keys that were defined:     *)
(* JSON.stringify drops a key whose value is undefined.                      *)

NoKeys == [k \in {} |-> Undefined]

NoStamp == 0 - 1

DisplayPartToJson(p) ==
    [text |-> p.text] @@ (IF p.thought THEN [thought |-> TRUE] ELSE NoKeys)

DisplayPartFromJson(j) ==
    [text |-> j.text, thought |-> ("thought" \in DOMAIN j /\ j.thought)]

(* variant: the display segments of a message are not written *)
MessageToJsonNoParts(m) ==
    [id |-> m.id, role |-> m.role, text |-> m.text]
        @@ (IF m.images # <<>> THEN [images |-> m.images] ELSE NoKeys)
        @@ (IF m.imageData # Undefined THEN [imageData |-> m.imageData] ELSE NoKeys)
        @@ (IF m.role = "system" THEN [isError |-> m.isError] ELSE NoKeys)

MessageToJson(m) ==
    [id |-> m.id, role |-> m.role, text |-> m.text]
        @@ (IF m.parts # <<>> THEN [parts |-> Map(m.parts, DisplayPartToJson)] ELSE NoKeys)
        @@ (IF m.images # <<>> THEN [images |-> m.images] ELSE NoKeys)
        @@ (IF m.imageData # Undefined THEN [imageData |-> m.imageData] ELSE NoKeys)
        @@ (IF m.role = "system" THEN [isError |-> m.isError] ELSE NoKeys)

MessageFromJson(j) ==
    [id |-> j.id, role |-> j.role, text |-> j.text,
     parts |-> IF "parts" \in DOMAIN j THEN Map(j.parts, DisplayPartFromJson) ELSE <<>>,
     images |-> IF "images" \in DOMAIN j THEN j.images ELSE <<>>,
     imageData |-> IF "imageData" \in DOMAIN j THEN j.imageData ELSE Undefined,
     isError |-> ("isError" \in DOMAIN j /\ j.isError)]

PartToJson(p) ==
    (IF p.type = "text" THEN [text |-> p.text] ELSE NoKeys)
        @@ (IF p.type = "inline" THEN [inline_data |-> [mime_type |-> p.mime, data |-> p.data]] ELSE NoKeys)
        @@ (IF p.thought THEN [thought |-> TRUE] ELSE NoKeys)

PartFromJson(j) ==
    LET thought == "thought" \in DOMAIN j /\ j.thought
    IN  IF "text" \in DOMAIN j
        THEN [type |-> "text", text |-> j.text, mime |-> "", data |-> "", thought |-> thought]
        ELSE IF "inline_data" \in DOMAIN j
        THEN [type |-> "inline", text |-> <<>>, mime |-> j.inline_data.mime_type,
              data |-> j.inline_data.data, thought |-> thought]
        ELSE [type |-> "empty", text |-> <<>>, mime |-> "", data |-> "", thought |-> thought]

EntryToJson(e) == [role |-> e.role, parts |-> Map(e.parts, PartToJson)]
EntryFromJson(j) == [role |-> j.role, parts |-> Map(j.parts, PartFromJson)]

(* JSON.stringify of a PersistedChat {version: 1, savedAt, payload} *)
StringifyChat(savedAt, payload) ==
    [kind |-> "json",
     value |-> [version |-> 1, savedAt |-> savedAt,
                payload |-> [sessionId |-> payload.sessionId,
                             messages |-> Map(payload.messages, MessageToJson),
                             history |-> Map(payload.history, EntryToJson),
                             prompt |-> payload.prompt,
                             aspectRatio |-> payload.aspectRatio,
                             imageSize |-> payload.imageSize,
                             forceImageGuidance |-> payload.forceImageGuidance,
                             lastImageData |-> payload.lastImageData]]]

(* what localStorage.getItem finds: nothing, the empty string, text that is *)
(* no JSON, or JSON text; "throws" is a store whose getItem raises          *)
NoItem == [kind |-> "none"]
EmptyItem == [kind |-> "empty"]
Garbage == [kind |-> "garbage"]
Unreadable == [kind |-> "throws"]

(* a JSON value that is no object (a number, a string, true, null) *)
Scalar == [scalar |-> TRUE]
IsObject(j) == "scalar" \notin DOMAIN j

(* a savedAt that is a number, not a string; NoStamp is the empty string *)
NotAString == 0 - 2
IsString(stamp) == stamp >= NoStamp

(* variant: a snapshot of any version is accepted *)
parsePersistedChatAnyVersion(raw) ==
    IF raw.kind \in {"none", "empty"} THEN <<>>
    ELSE IF raw.kind # "json" THEN <<>>
    ELSE LET parsed == raw.value
         IN  IF ~IsObject(parsed) THEN <<>>
             ELSE IF "savedAt" \notin DOMAIN parsed \/ parsed.savedAt = NoStamp
                     \/ ~IsString(parsed.savedAt) THEN <<>>
             ELSE IF "payload" \notin DOMAIN parsed \/ ~IsObject(parsed.payload) THEN <<>>
             ELSE <<parsed>>

(* parsePersistedChat: <<>> for null, <<parsed>> otherwise *)
parsePersistedChat(raw) ==
    IF raw.kind \in {"none", "empty"} THEN <<>>
    ELSE IF raw.kind # "json" THEN <<>>
    ELSE LET parsed == raw.value
         IN  IF ~IsObject(parsed) THEN <<>>
             ELSE IF "version" \notin DOMAIN parsed \/ parsed.version # 1 THEN <<>>
             ELSE IF "savedAt" \notin DOMAIN parsed \/ parsed.savedAt = NoStamp
                     \/ ~IsString(parsed.savedAt) THEN <<>>
             ELSE IF "payload" \notin DOMAIN parsed \/ ~IsObject(parsed.payload) THEN <<>>
             ELSE <<parsed>>

(* readPersistedChat: getItem(...) || '' inside try/catch *)
readPersistedChat(slot) ==
    IF slot.kind = "throws" THEN <<>>
    ELSE parsePersistedChat(IF slot.kind = "none" THEN EmptyItem ELSE slot)

(* variant: the slimmed message drops the uploads but keeps the generated image *)
slimMessageKeepsImageData(m) == [m EXCEPT !.images = <<>>]

slimMessage(m) == [m EXCEPT !.images = <<>>, !.imageData = Undefined]

slimEntry(msg) ==
    [role |-> msg.role,
     parts |-> Map(SelectSeq(msg.parts, LAMBDA p : p.type = "text" /\ Len(Trim(p.text)) > 0),
                   LAMBDA p : TextPart(p.text))]

slimPersistPayload(payload) ==
    [payload EXCEPT !.messages = Map(payload.messages, slimMessage),
                    !.history = Map(payload.history, slimEntry),
                    !.lastImageData = Null]

(* localStorage.setItem under the three behaviours of the store: "ok" takes  *)
(* every write, "quota" refuses a value that carries image payloads, and     *)
(* "broken" refuses every write.                                             *)
PayloadHasImages(payload) ==
    \/ payload.lastImageData # Null
    \/ \E i \in 1..Len(payload.messages) :
         payload.messages[i].images # <<>> \/ payload.messages[i].imageData # Undefined
    \/ \E i \in 1..Len(payload.history) :
         \E k \in 1..Len(payload.history[i].parts) : payload.history[i].parts[k].type = "inline"

SetItemOk(mode, payload) ==
    \/ mode = "ok"
    \/ mode = "quota" /\ ~PayloadHasImages(payload)

(* writePersistedChat: the new slot content and the returned {savedAt, didFallback} *)
writePersistedChat(slot, mode, now, payload) ==
    IF SetItemOk(mode, payload)
    THEN [slot |-> StringifyChat(now, payload), savedAt |-> now, didFallback |-> FALSE,
          stored |-> "full"]
    ELSE IF SetItemOk(mode, slimPersistPayload(payload))
    THEN [slot |-> StringifyChat(now, slimPersistPayload(payload)), savedAt |-> now,
          didFallback |-> TRUE, stored |-> "slim"]
    ELSE [slot |-> slot, savedAt |-> now, didFallback |-> TRUE, stored |-> "none"]

(* variant: the slot is left as it is *)
clearPersistedChatKeeps(slot) == slot

(* clearPersistedChat: removeItem inside try/catch *)
clearPersistedChat(slot) == IF slot.kind = "throws" THEN slot ELSE NoItem

readSavedConversationMeta(slot) ==
    LET saved == readPersistedChat(slot)
    IN  [hasSavedConversation |-> saved # <<>>,
         savedConversationAt |-> IF saved # <<>> THEN saved[1].savedAt ELSE NoStamp]

readForceImageGuidance(pref) == pref = "true"

-----------------------------------------------------------------------------
(* Session State Machine *)

(* env: what createInitialState reads from outside the reducer *)
createInitialState(env) ==
    [sessionId |-> env.sid,
     messages |-> <<>>,
     history |-> <<>>,
     prompt |-> <<>>,
     aspectRatio |-> "1:1",
     imageSize |-> "2K",
     forceImageGuidance |-> readForceImageGuidance(env.pref),
     hasSavedConversation |-> readSavedConversationMeta(env.slot).hasSavedConversation,
     savedConversationAt |-> readSavedConversationMeta(env.slot).savedConversationAt,
     uploadedImages |-> <<>>,
     lastImageData |-> Null,
     loading |-> FALSE]

restoreCase(s, a) ==
    LET payload == a.payload.payload
        messages == IF "messages" \in DOMAIN payload
                    THEN Map(payload.messages, MessageFromJson) ELSE <<>>
    IN  [s EXCEPT
            !.sessionId = IF "sessionId" \in DOMAIN payload THEN payload.sessionId ELSE a.env.sid,
            !.messages = messages,
            !.history = IF "history" \in DOMAIN payload
                        THEN Map(payload.history, EntryFromJson) ELSE <<>>,
            !.prompt = IF "prompt" \in DOMAIN payload THEN payload.prompt ELSE <<>>,
            !.aspectRatio = IF "aspectRatio" \in DOMAIN payload THEN payload.aspectRatio ELSE "1:1",
            !.imageSize = IF "imageSize" \in DOMAIN payload THEN payload.imageSize ELSE "2K",
            !.forceImageGuidance = IF "forceImageGuidance" \in DOMAIN payload
                                   THEN payload.forceImageGuidance ELSE s.forceImageGuidance,
            !.uploadedImages = <<>>,
            !.lastImageData = IF "lastImageData" \in DOMAIN payload /\ payload.lastImageData # Null
                              THEN payload.lastImageData ELSE resolveLastImageData(messages),
            !.loading = FALSE,
            !.hasSavedConversation = TRUE,
            !.savedConversationAt = a.payload.savedAt]

(* variant: the deletion leaves the provider history as it was *)
deleteMessageKeepsHistory(s, id) ==
    LET nextMessages == SelectSeq(s.messages, LAMBDA m : m.id # id)
    IN  [s EXCEPT !.messages = nextMessages,
                  !.lastImageData = resolveLastImageData(nextMessages)]

(* variant: drops the message and every message after it *)
deleteMessageTruncates(s, id) ==
    LET keep == {i \in 1..Len(s.messages) : \A j \in 1..i : s.messages[j].id # id}
        nextMessages == SubSeq(s.messages, 1, Cardinality(keep))
    IN  [s EXCEPT !.messages = nextMessages,
                  !.history = rebuildHistoryFromMessages(nextMessages),
                  !.lastImageData = resolveLastImageData(nextMessages)]

deleteMessageCase(s, id) ==
    LET nextMessages == SelectSeq(s.messages, LAMBDA m : m.id # id)
    IN  [s EXCEPT !.messages = nextMessages,
                  !.history = rebuildHistoryFromMessages(nextMessages),
                  !.lastImageData = resolveLastImageData(nextMessages)]

chatReducer(s, a) ==
    CASE a.type = "setPrompt" -> [s EXCEPT !.prompt = a.payload]
      [] a.type = "setAspectRatio" -> [s EXCEPT !.aspectRatio = a.payload]
      [] a.type = "setImageSize" -> [s EXCEPT !.imageSize = a.payload]
      [] a.type = "setForceImageGuidance" -> [s EXCEPT !.forceImageGuidance = a.payload]
      [] a.type = "setSavedConversationMeta" ->
            [s EXCEPT !.hasSavedConversation = a.payload.hasSavedConversation,
                      !.savedConversationAt = a.payload.savedConversationAt]
      [] a.type = "restoreSavedConversation" -> restoreCase(s, a)
      [] a.type = "deleteMessage" -> deleteMessageCase(s, a.payload)
      [] a.type = "addUploads" -> [s EXCEPT !.uploadedImages = s.uploadedImages \o a.payload]
      [] a.type = "removeUpload" ->
            [s EXCEPT !.uploadedImages = SelectSeq(s.uploadedImages, LAMBDA img : img.id # a.payload)]
      [] a.type = "clearUploads" -> [s EXCEPT !.uploadedImages = <<>>]
      [] a.type = "appendMessage" -> [s EXCEPT !.messages = Append(s.messages, a.payload)]
      [] a.type = "setHistory" -> [s EXCEPT !.history = a.payload]
      [] a.type = "setLastImage" -> [s EXCEPT !.lastImageData = a.payload]
      [] a.type = "setLoading" -> [s EXCEPT !.loading = a.payload]
      [] a.type = "reset" -> createInitialState(a.env)
      [] OTHER -> s

(* the dispatches of one handler, applied in order *)
RECURSIVE Dispatch(_, _)
Dispatch(s, actions) ==
    IF actions = <<>> THEN s
    ELSE Dispatch(chatReducer(s, Head(actions)), Tail(actions))

Act(type, payload) == [type |-> type, payload |-> payload]

-----------------------------------------------------------------------------
(* Message construction *)

toSystemMessage(id, text, isError) ==
    [id |-> id, role |-> "system", text |-> text, parts |-> <<>>, images |-> <<>>,
     imageData |-> Undefined, isError |-> isError]

toUserMessage(id, text, images) ==
    [id |-> id, role |-> "user", text |-> text, parts |-> <<>>,
     images |-> IF Len(images) > 0 THEN images ELSE <<>>,
     imageData |-> Undefined, isError |-> FALSE]

toAssistantMessage(id, response) ==
    [id |-> id, role |-> "assistant", text |-> response.text,
     parts |-> IF Len(response.parts) > 0 THEN response.parts ELSE <<>>,
     images |-> <<>>,
     imageData |-> IF response.imageData # Null THEN response.imageData ELSE Undefined,
     isError |-> FALSE]

buildUserLabel(mode, text) ==
    IF mode = "edit" THEN <<"EDIT_MARK", " ">> \o text
    ELSE IF mode = "search" THEN <<"SEARCH_MARK", " ">> \o text
    ELSE text

FORCE_IMAGE_GUIDANCE_PREFIX == <<"GUIDANCE_LINE_1", "\n", "GUIDANCE_LINE_2">>

applyForceImageGuidance(prompt) ==
    LET trimmedStart == TrimStart(prompt)
        firstLine == FirstLine(FORCE_IMAGE_GUIDANCE_PREFIX)
    IN  IF trimmedStart = <<>> THEN FORCE_IMAGE_GUIDANCE_PREFIX
        ELSE IF StartsWith(trimmedStart, firstLine) THEN prompt
        ELSE FORCE_IMAGE_GUIDANCE_PREFIX \o <<"\n", "\n">> \o prompt

(* variant: pending uploads are looked at before the mode *)
resolveRequestKindUploadsFirst(mode, hasUploads) ==
    IF hasUploads THEN "COMPOSITE"
    ELSE IF mode = "edit" THEN "EDIT"
    ELSE IF mode = "search" THEN "SEARCH"
    ELSE "GENERATE"

resolveRequestKind(mode, hasUploads) ==
    IF mode = "edit" THEN "EDIT"
    ELSE IF hasUploads THEN "COMPOSITE"
    ELSE IF mode = "search" THEN "SEARCH"
    ELSE "GENERATE"

(* the user-facing error texts *)
ErrUnsupported == <<"ERR_OPENAI_UNSUPPORTED">>
ErrNoImage == <<"ERR_NO_EDITABLE_IMAGE">>
ErrTooMany == <<"ERR_MAX_14_UPLOADS">>
ErrNoSaved == <<"ERR_NO_SAVED_CONVERSATION">>
ErrNotConfigured == <<"ERR_CONFIGURE_URL_AND_KEY">>
ErrTimeout == <<"ERR_TIMEOUT_20_MIN">>
ErrNetwork == <<"ERR_NETWORK_REQUEST_FAILED">>
ErrRequest == <<"ERR_REQUEST_FAILED">>
ErrorPrefix == <<"ERROR_PREFIX">>

-----------------------------------------------------------------------------
(* Provider Adapter A: geminiClient *)

(* variant: the images of model entries are sent back to the provider *)
cloneHistoryKeepsModelImages(history) ==
    LET copy(part) ==
            IF HasInline(part) THEN InlinePart(part.mime, part.data)
            ELSE IF HasText(part) THEN TextPart(part.text)
            ELSE EmptyPart
        clone(message) ==
            [role |-> message.role,
             parts |-> Map(SelectSeq(message.parts, LAMBDA part : ~part.thought), copy)]
    IN  SelectSeq(Map(history, clone), LAMBDA message : Len(message.parts) > 0)

cloneHistory(history) ==
    LET keep(message, part) ==
            /\ ~part.thought
            /\ ~(message.role = "model" /\ HasInline(part))
        copy(part) ==
            IF HasInline(part) THEN InlinePart(part.mime, part.data)
            ELSE IF HasText(part) THEN TextPart(part.text)
            ELSE EmptyPart
        clone(message) ==
            [role |-> message.role,
             parts |-> Map(SelectSeq(message.parts, LAMBDA part : keep(message, part)), copy)]
    IN  SelectSeq(Map(history, clone), LAMBDA message : Len(message.parts) > 0)

geminiBuildUserMessage(prompt, images) ==
    LET withData == SelectSeq(images, LAMBDA img : img.data # "")
        toPart(img) == InlinePart(IF img.mimeType # "" THEN img.mimeType ELSE "image/png", img.data)
    IN  [role |-> "user", parts |-> <<TextPart(prompt)>> \o Map(withData, toPart)]

(* a GeminiResponse is the parts of candidates[0].content, <<>> when there is none *)
extractText(response) ==
    Join(Map(SelectSeq(response, LAMBDA part : part.type = "text"), LAMBDA part : part.text),
         <<"\n", "\n">>)

RECURSIVE extractImageData(_)
extractImageData(response) ==
    IF response = <<>> THEN Null
    ELSE IF HasInline(Head(response)) /\ Head(response).data # "" THEN Head(response).data
    ELSE extractImageData(Tail(response))

(* variant: the thought segments of the response are kept, marked *)
buildAssistantMessagePartsWithThoughts(response) ==
    LET shown == SelectSeq(response, LAMBDA part : HasText(part) \/ HasInline(part))
        asPart(part) == IF HasText(part)
                        THEN [TextPart(part.text) EXCEPT !.thought = part.thought]
                        ELSE InlinePart(part.mime, part.data)
        texts == SelectSeq(response, LAMBDA part : ~part.thought /\ HasText(part))
    IN  [parts |-> Map(shown, asPart),
         textParts |-> Map(texts, LAMBDA part : [text |-> part.text, thought |-> FALSE])]

buildAssistantMessageParts(response) ==
    LET shown == SelectSeq(response, LAMBDA part : ~part.thought /\ (HasText(part) \/ HasInline(part)))
        asPart(part) == IF HasText(part) THEN TextPart(part.text) ELSE InlinePart(part.mime, part.data)
        texts == SelectSeq(response, LAMBDA part : ~part.thought /\ HasText(part))
    IN  [parts |-> Map(shown, asPart),
         textParts |-> Map(texts, LAMBDA part : [text |-> part.text, thought |-> FALSE])]

geminiContents(call) ==
    cloneHistory(call.history) \o <<geminiBuildUserMessage(call.prompt, call.images)>>

(* variant: a model entry is appended whatever the response yielded *)
callGeminiApiAlwaysAppends(call, response) ==
    LET contents == geminiContents(call)
        built == buildAssistantMessageParts(response)
    IN  [text |-> extractText(response),
         parts |-> built.textParts,
         imageData |-> extractImageData(response),
         history |-> contents \o <<[role |-> "model", parts |-> built.parts]>>]

callGeminiApi(call, response) ==
    LET contents == geminiContents(call)
        built == buildAssistantMessageParts(response)
    IN  [text |-> extractText(response),
         parts |-> built.textParts,
         imageData |-> extractImageData(response),
         history |-> IF Len(built.parts) > 0
                     THEN contents \o <<[role |-> "model", parts |-> built.parts]>>
                     ELSE contents]

-----------------------------------------------------------------------------
(* Provider Adapter B: openaiClient *)

(* The tokens of a reply text: an embedded image ![..](data:image/..;base64,<payload>), *)
(* an image given by its address ![..](https://..), a line break "\n", and any other  *)
(* token a character without '!' or '['                                               *)
MarkdownImages == {"MD_IMAGE:g1", "MD_IMAGE:g2"}
LinkedImages == {"MD_LINK:h1"}

ImagePayload(token) == IF token = "MD_IMAGE:g1" THEN "g1" ELSE "g2"

(* text.matchAll(imagePattern) from position `from`: `!\[` is found at the start of *)
(* either kind of image, `.*?` then runs over anything but a line break up to the   *)
(* nearest `](data:image/..;base64,..)`, which is the tail of an embedded image      *)
RECURSIVE imageMatches(_, _)
imageMatches(text, from) ==
    IF from > Len(text) THEN <<>>
    ELSE LET ends == {j \in from..Len(text) :
                         /\ text[j] \in MarkdownImages
                         /\ \A k \in from..(j - 1) : text[k] # "\n"}
             last == CHOOSE j \in ends : \A e \in ends : j <= e
         IN  IF text[from] \in MarkdownImages \cup LinkedImages /\ ends # {}
             THEN <<[first |-> from, last |-> last]>> \o imageMatches(text, last + 1)
             ELSE imageMatches(text, from + 1)

extractImageFromMarkdown(text) ==
    LET matches == imageMatches(text, 1)
        matched(i) == \E m \in 1..Len(matches) : matches[m].first <= i /\ i <= matches[m].last
        rest[i \in 0..Len(text)] ==
            IF i = 0 THEN <<>>
            ELSE IF matched(i) THEN rest[i - 1] ELSE Append(rest[i - 1], text[i])
    IN  [cleanText |-> Trim(rest[Len(text)]),
         imageData |-> IF Len(matches) > 0
                       THEN ImagePayload(text[matches[Len(matches)].last]) ELSE Null]

(* an OpenAIResponse: whether choices[0] exists, its content and reasoning_content *)
convertOpenAIResponseToGeminiResult(response, previousHistory, userMessage) ==
    IF ~response.choice
    THEN [text |-> <<>>, parts |-> <<>>, imageData |-> Null,
          history |-> previousHistory \o <<userMessage>>]
    ELSE LET ex == extractImageFromMarkdown(response.content)
             parts ==
                 (IF response.reasoning # <<>>
                  THEN <<[text |-> response.reasoning, thought |-> TRUE]>> ELSE <<>>)
                 \o (IF ex.cleanText # <<>>
                     THEN <<[text |-> ex.cleanText, thought |-> FALSE]>> ELSE <<>>)
             content ==
                 (IF ex.cleanText # <<>> THEN <<TextPart(ex.cleanText)>> ELSE <<>>)
                 \o (IF ex.imageData # Null THEN <<InlinePart("image/png", ex.imageData)>> ELSE <<>>)
             assistantParts == IF Len(content) = 0 THEN <<TextPart(<<>>)>> ELSE content
         IN  [text |-> ex.cleanText, parts |-> parts, imageData |-> ex.imageData,
              history |-> previousHistory \o <<userMessage, [role |-> "model", parts |-> assistantParts]>>]

callOpenAIApi(call, response) ==
    LET toPart(img) == InlinePart(IF img.mimeType # "" THEN img.mimeType ELSE "image/png", img.data)
        geminiUserMessage ==
            [role |-> "user", parts |-> <<TextPart(call.prompt)>> \o Map(call.images, toPart)]
    IN  convertOpenAIResponseToGeminiResult(response, call.history, geminiUserMessage)

(* how the shared request helper ends for a failed request: the deadline *)
(* aborts the fetch, which rejects with an AbortError; an unreachable    *)
(* network rejects with a TypeError; a status outside 2xx is a response  *)
requestWithMode(failure) ==
    IF failure = "timeout" THEN "AbortError"
    ELSE IF failure = "network" THEN "TypeError"
    ELSE "response"

(* the message of the error the Gemini adapter throws for a failed request *)
requestError(failure) ==
    LET outcome == requestWithMode(failure)
    IN  IF outcome = "AbortError" THEN ErrTimeout
        ELSE IF outcome = "TypeError" THEN ErrNetwork
        ELSE ErrRequest

(* variant: the OpenAI-compatible adapter reports every rejection alike *)
requestOpenAIErrorGeneric(failure) ==
    IF requestWithMode(failure) = "response" THEN ErrRequest ELSE ErrNetwork

(* the message of the error the OpenAI-compatible adapter throws *)
requestOpenAIError(failure) ==
    LET outcome == requestWithMode(failure)
    IN  IF outcome = "AbortError" THEN ErrTimeout
        ELSE IF outcome = "TypeError" THEN ErrNetwork
        ELSE ErrRequest

clientError(client, failure) ==
    IF client = "openai" THEN requestOpenAIError(failure) ELSE requestError(failure)

-----------------------------------------------------------------------------
(* utils/files (limitUploads, toUploadItems) and utils/session *)

Min(a, b) == IF a < b THEN a ELSE b
Max(a, b) == IF a > b THEN a ELSE b

limitUploads(currentCount, files) ==
    SubSeq(files, 1, Min(Len(files), Max(0, MaxUploads - currentCount)))

toUploadItems(files, firstId) ==
    [i \in 1..Len(files) |->
        [id |-> firstId + i - 1, mimeType |-> files[i].mime, base64 |-> files[i].data,
         dataUrl |-> DataUrl(files[i].mime, files[i].data)]]

-----------------------------------------------------------------------------
(* useChatSession: the persistence effect *)

hasConversation(s) ==
    Len(s.messages) > 0 \/ Len(s.history) > 0 \/ s.lastImageData # Null

persistedPayload(s) ==
    [sessionId |-> s.sessionId, messages |-> s.messages, history |-> s.history,
     prompt |-> s.prompt, aspectRatio |-> s.aspectRatio, imageSize |-> s.imageSize,
     forceImageGuidance |-> s.forceImageGuidance, lastImageData |-> s.lastImageData]

NoWrite == [op |-> "none", savedAt |-> NoStamp, didFallback |-> FALSE, stored |-> "none",
            payload |-> <<>>]

(* variant: a snapshot that could not be stored discards the conversation *)
persistEffectDiscarding(s, slot, mode, now) ==
    IF ~hasConversation(s)
    THEN IF s.hasSavedConversation
         THEN [state |-> chatReducer(s, Act("setSavedConversationMeta",
                            [hasSavedConversation |-> FALSE, savedConversationAt |-> NoStamp])),
               slot |-> clearPersistedChat(slot),
               write |-> [NoWrite EXCEPT !.op = "clear"]]
         ELSE [state |-> s, slot |-> slot, write |-> NoWrite]
    ELSE LET w == writePersistedChat(slot, mode, now, persistedPayload(s))
         IN  [state |-> IF w.stored = "none"
                        THEN [s EXCEPT !.messages = <<>>, !.history = <<>>, !.lastImageData = Null]
                        ELSE chatReducer(s, Act("setSavedConversationMeta",
                                [hasSavedConversation |-> TRUE, savedConversationAt |-> w.savedAt])),
              slot |-> w.slot,
              write |-> [op |-> "write", savedAt |-> w.savedAt, didFallback |-> w.didFallback,
                         stored |-> w.stored, payload |-> <<persistedPayload(s)>>]]

(* the effect body on the rendered state s: the state after its dispatch, the *)
(* slot after its store operation, and a record of that operation             *)
persistEffect(s, slot, mode, now) ==
    IF ~hasConversation(s)
    THEN IF s.hasSavedConversation
         THEN [state |-> chatReducer(s, Act("setSavedConversationMeta",
                            [hasSavedConversation |-> FALSE, savedConversationAt |-> NoStamp])),
               slot |-> clearPersistedChat(slot),
               write |-> [NoWrite EXCEPT !.op = "clear"]]
         ELSE [state |-> s, slot |-> slot, write |-> NoWrite]
    ELSE LET w == writePersistedChat(slot, mode, now, persistedPayload(s))
         IN  [state |-> IF ~s.hasSavedConversation \/ s.savedConversationAt # w.savedAt
                        THEN chatReducer(s, Act("setSavedConversationMeta",
                                [hasSavedConversation |-> TRUE, savedConversationAt |-> w.savedAt]))
                        ELSE s,
              slot |-> w.slot,
              write |-> [op |-> "write", savedAt |-> w.savedAt, didFallback |-> w.didFallback,
                         stored |-> w.stored, payload |-> <<persistedPayload(s)>>]]

(* the effect's dependency list: an array is a new object after every action *)
(* that rebuilds it, a string or boolean is compared by value                *)
ReplacesArrays(a) ==
    a.type \in {"appendMessage", "setHistory", "deleteMessage", "restoreSavedConversation", "reset"}

(* variant: the prompt text is no dependency of the effect *)
depsChangedButPrompt(pre, post, actions) ==
    \/ \E i \in 1..Len(actions) : ReplacesArrays(actions[i])
    \/ pre.sessionId # post.sessionId
    \/ pre.aspectRatio # post.aspectRatio
    \/ pre.imageSize # post.imageSize
    \/ pre.forceImageGuidance # post.forceImageGuidance
    \/ pre.lastImageData # post.lastImageData

(* variant: the saved-conversation metadata are dependencies of the effect too *)
depsChangedWithMeta(pre, post, actions) ==
    \/ \E i \in 1..Len(actions) : ReplacesArrays(actions[i])
    \/ pre.sessionId # post.sessionId
    \/ pre.prompt # post.prompt
    \/ pre.aspectRatio # post.aspectRatio
    \/ pre.imageSize # post.imageSize
    \/ pre.forceImageGuidance # post.forceImageGuidance
    \/ pre.lastImageData # post.lastImageData
    \/ pre.hasSavedConversation # post.hasSavedConversation
    \/ pre.savedConversationAt # post.savedConversationAt

depsChanged(pre, post, actions) ==
    \/ \E i \in 1..Len(actions) : ReplacesArrays(actions[i])
    \/ pre.sessionId # post.sessionId
    \/ pre.prompt # post.prompt
    \/ pre.aspectRatio # post.aspectRatio
    \/ pre.imageSize # post.imageSize
    \/ pre.forceImageGuidance # post.forceImageGuidance
    \/ pre.lastImageData # post.lastImageData

(* the twin session follows the handlers of the session until it restores a *)
(* snapshot of its own store                                                *)
NoTwin == [on |-> FALSE]
Following == twin.on /\ ~twin.restored

TwinCommit(actions, slot, restores) ==
    LET post == Dispatch(twin.state, actions)
        run == didPersist /\ depsChanged(twin.state, post, actions)
        eff == persistEffect(post, slot, "ok", clock)
    IN  twin' = IF Following
                THEN [twin EXCEPT !.state = IF run THEN eff.state ELSE post,
                                  !.store = IF run THEN eff.slot ELSE slot,
                                  !.restored = restores]
                ELSE twin

(* one handler: its dispatches are applied, the component renders, and the *)
(* persistence effect runs when one of its dependencies changed            *)
CommitBoth(actions, slot, twinActions, twinSlot, restores) ==
    LET post == Dispatch(state, actions)
        run == didPersist /\ depsChanged(state, post, actions)
        eff == persistEffect(post, slot, storeMode, clock)
    IN  /\ state' = IF run THEN eff.state ELSE post
        /\ store' = IF run THEN eff.slot ELSE slot
        /\ lastWrite' = IF run THEN eff.write ELSE NoWrite
        /\ TwinCommit(twinActions, twinSlot, restores)

Commit(actions, slot) ==
    CommitBoth(actions, slot, actions, IF Following THEN twin.store ELSE slot, FALSE)

Op(name, mode, outcome) == [name |-> name, mode |-> mode, outcome |-> outcome]

(* message ids still free once every pending reply and notice has its own *)
Reserved ==
    Len(inflight) + Cardinality({i \in 1..Len(uploading) : uploading[i].notice})

CanAllocate(n) == (nextId - 1) + Reserved + n <= MaxIds

RemoveAt(s, i) == SubSeq(s, 1, i - 1) \o SubSeq(s, i + 1, Len(s))

-----------------------------------------------------------------------------
(* Inputs of the model *)

Prompts == {<<"a">>, <<" ">>}
GenImages == {"g1", "g2"}
PngFile == [mime |-> "image/png", data |-> "u1"]
Failures == {"http", "network", "timeout"}

GeminiReplies ==
    {<<>>, <<TextPart(<<"r">>)>>, <<ThoughtPart(<<"t">>)>>, <<TextPart(<<>>)>>,
     <<ThoughtPart(<<"t">>), TextPart(<<"r">>), InlinePart("image/png", "g1")>>}
    \cup {<<InlinePart("image/png", g)>> : g \in GenImages}

OpenAIReplies ==
    {[choice |-> FALSE, content |-> <<>>, reasoning |-> <<>>],
     [choice |-> TRUE, content |-> <<>>, reasoning |-> <<>>],
     [choice |-> TRUE, content |-> <<"r">>, reasoning |-> <<"t">>],
     [choice |-> TRUE, content |-> <<"r", " ", "MD_IMAGE:g1">>, reasoning |-> <<>>],
     [choice |-> TRUE, content |-> <<"MD_IMAGE:g1", "MD_IMAGE:g2">>, reasoning |-> <<>>]}

(* reply texts with no, one and two embedded images, and with an image given by *)
(* its address on the line of an embedded image and on the line before it       *)
MarkdownReplies ==
    {<<"r">>,
     <<"r", " ", "MD_IMAGE:g1">>,
     <<"MD_IMAGE:g1", " ", "r", " ", "MD_IMAGE:g2", "\n">>,
     <<"MD_LINK:h1", "\n", "MD_IMAGE:g2">>,
     <<"MD_LINK:h1", " ", "MD_IMAGE:g1">>}

-----------------------------------------------------------------------------
(* useChatSession: construction *)

Init ==
    /\ store = NoItem
    /\ guidancePref = "none"
    /\ storeMode = "ok"
    /\ apiType = "gemini"
    /\ configured = TRUE
    /\ state = createInitialState([sid |-> 1, pref |-> "none", slot |-> NoItem])
    /\ didPersist = FALSE
    /\ inflight = <<>>
    /\ uploading = <<>>
    /\ nextId = 1
    /\ nextSession = 2
    /\ clock = 0
    /\ netCalls = 0
    /\ lastOp = Op("init", "", "")
    /\ lastWrite = NoWrite
    /\ twin = NoTwin

(* variant: the first run of the effect is not skipped *)
MountRunsEffect ==
    /\ ~didPersist
    /\ didPersist' = TRUE
    /\ lastOp' = Op("mount", "", "")
    /\ LET eff == persistEffect(state, store, storeMode, clock)
       IN  /\ state' = eff.state
           /\ store' = eff.slot
           /\ lastWrite' = eff.write
    /\ UNCHANGED <<twin, guidancePref, storeMode, apiType, configured, inflight,
                   uploading, nextId, nextSession, clock, netCalls>>

(* the first run of the persistence effect, right after the first render *)
Mount ==
    /\ ~didPersist
    /\ didPersist' = TRUE
    /\ lastOp' = Op("mount", "", "")
    /\ lastWrite' = NoWrite
    /\ UNCHANGED <<twin, state, store, guidancePref, storeMode, apiType, configured, inflight,
                   uploading, nextId, nextSession, clock, netCalls>>

-----------------------------------------------------------------------------
(* useChatSession: the actions that only dispatch *)

SetPrompt(value) ==
    /\ didPersist
    /\ Commit(<<Act("setPrompt", value)>>, store)
    /\ lastOp' = Op("setPrompt", "", "")
    /\ UNCHANGED <<didPersist, guidancePref, storeMode, apiType, configured, inflight,
                   uploading, nextId, nextSession, clock, netCalls>>

SetAspectRatio(value) ==
    /\ didPersist
    /\ Commit(<<Act("setAspectRatio", value)>>, store)
    /\ lastOp' = Op("setAspectRatio", "", "")
    /\ UNCHANGED <<didPersist, guidancePref, storeMode, apiType, configured, inflight,
                   uploading, nextId, nextSession, clock, netCalls>>

SetImageSize(value) ==
    /\ didPersist
    /\ Commit(<<Act("setImageSize", value)>>, store)
    /\ lastOp' = Op("setImageSize", "", "")
    /\ UNCHANGED <<didPersist, guidancePref, storeMode, apiType, configured, inflight,
                   uploading, nextId, nextSession, clock, netCalls>>

writeForceImageGuidance(pref, mode, value) ==
    IF mode = "broken" THEN pref ELSE IF value THEN "true" ELSE "false"

SetForceImageGuidance(value) ==
    /\ didPersist
    /\ guidancePref' = writeForceImageGuidance(guidancePref, storeMode, value)
    /\ Commit(<<Act("setForceImageGuidance", value)>>, store)
    /\ lastOp' = Op("setForceImageGuidance", "", "")
    /\ UNCHANGED <<didPersist, storeMode, apiType, configured, inflight,
                   uploading, nextId, nextSession, clock, netCalls>>

RemoveUpload(id) ==
    /\ didPersist
    /\ \E i \in 1..Len(state.uploadedImages) : state.uploadedImages[i].id = id
    /\ Commit(<<Act("removeUpload", id)>>, store)
    /\ lastOp' = Op("removeUpload", "", "")
    /\ UNCHANGED <<didPersist, guidancePref, storeMode, apiType, configured, inflight,
                   uploading, nextId, nextSession, clock, netCalls>>

DeleteMessage(id) ==
    /\ didPersist
    /\ Commit(<<Act("deleteMessage", id)>>, store)
    /\ lastOp' = Op("deleteMessage", "", "")
    /\ UNCHANGED <<didPersist, guidancePref, storeMode, apiType, configured, inflight,
                   uploading, nextId, nextSession, clock, netCalls>>

-----------------------------------------------------------------------------
(* useChatSession: addUploads, in two steps around `await toUploadItems` *)

(* upload ids are opaque and unique among the pending uploads *)
RECURSIVE MaxUploadId(_)
MaxUploadId(items) ==
    IF items = <<>> THEN 0 ELSE Max(Head(items).id, MaxUploadId(Tail(items)))

FreshUploadId(items) == MaxUploadId(items) + 1

(* variant: the notice is also raised when every file fits *)
NeedsNoticeInclusive(incoming, usableFiles) == Len(incoming) >= Len(usableFiles)

NeedsNotice(incoming, usableFiles) == Len(incoming) > Len(usableFiles)

PendingCount == Len(state.uploadedImages) + Len(Flatten(Map(uploading, LAMBDA u : u.usable)))

AddUploadsBegin(files, cap) ==
    /\ didPersist
    /\ Len(files) > 0
    /\ Len(uploading) < MaxUploading
    /\ PendingCount + Len(files) <= cap
    /\ LET usableFiles == limitUploads(Len(state.uploadedImages), files)
           notice == NeedsNotice(files, usableFiles)
           overlap == Len(uploading) > 0
       IN  /\ notice => CanAllocate(1)
           /\ uploading' =
                Append([i \in 1..Len(uploading) |-> [uploading[i] EXCEPT !.single = FALSE]],
                       [usable |-> usableFiles, incoming |-> Len(files), notice |-> notice,
                        before |-> Len(state.uploadedImages), single |-> ~overlap])
    /\ lastOp' = Op("addUploadsBegin", "", "")
    /\ lastWrite' = NoWrite
    /\ UNCHANGED <<twin, state, didPersist, store, guidancePref, storeMode, apiType, configured,
                   inflight, nextId, nextSession, clock, netCalls>>

AddUploadsEnd(i) ==
    /\ i \in 1..Len(uploading)
    /\ LET u == uploading[i]
           items == toUploadItems(u.usable, FreshUploadId(state.uploadedImages))
           notices == IF u.notice
                      THEN <<Act("appendMessage", toSystemMessage(nextId, ErrTooMany, TRUE))>>
                      ELSE <<>>
       IN  /\ Commit(notices \o <<Act("addUploads", items)>>, store)
           /\ nextId' = nextId + Len(notices)
           /\ lastOp' = [name |-> "addUploads", mode |-> "",
                         outcome |-> IF u.single THEN "single" ELSE "overlapped",
                         n |-> u.incoming, before |-> u.before, admitted |-> Len(items),
                         notices |-> Len(notices)]
    /\ uploading' = RemoveAt(uploading, i)
    /\ UNCHANGED <<didPersist, guidancePref, storeMode, apiType, configured, inflight,
                   nextSession, clock, netCalls>>

-----------------------------------------------------------------------------
(* useChatSession: sendPrompt up to its `await`, and the Request Router *)

getClient(type) == IF type = "openai" THEN "openai" ELSE "gemini"

(* requestHandlers[kind](ctx): the adapter operation invoked and its arguments *)
requestHandlers(kind, ctx, type) ==
    LET client == getClient(type)
        base == [client |-> client, history |-> ctx.history, aspectRatio |-> ctx.aspectRatio,
                 imageSize |-> ctx.imageSize, session |-> ctx.session]
    IN  CASE kind = "EDIT" ->
                base @@ [op |-> "editImage", prompt |-> ctx.promptText, useSearch |-> FALSE,
                         images |-> <<[data |-> ctx.lastImageData, mimeType |-> "image/png"]>>]
          [] kind = "COMPOSITE" ->
                base @@ [op |-> "compositeImages", prompt |-> ctx.labelledPrompt,
                         useSearch |-> FALSE, images |-> ctx.imageDataList]
          [] kind = "SEARCH" ->
                base @@ [op |-> "generateWithSearch", prompt |-> ctx.promptText,
                         useSearch |-> (client = "gemini"), images |-> <<>>]
          [] OTHER ->
                base @@ [op |-> "generateImage", prompt |-> ctx.labelledPrompt,
                         useSearch |-> FALSE, images |-> <<>>]

(* variant: the session's image size is sent to either provider *)
requestImageSizeOfSession(type, s) == s.imageSize

(* the generation options of the request context *)
requestAspectRatio(type, s) == IF type = "openai" THEN "1:1" ELSE s.aspectRatio

requestImageSize(type, s) == IF type = "openai" THEN "1K" ELSE s.imageSize

(* variant: the failure notice is recorded and loading is left set *)
failureDispatchesKeepsLoading(id, message) ==
    <<Act("appendMessage", toSystemMessage(id, ErrorPrefix \o message, TRUE))>>

(* variant: a failure also takes back the provider history and the last image *)
failureDispatchesRollingBack(id, message) ==
    <<Act("appendMessage", toSystemMessage(id, ErrorPrefix \o message, TRUE)),
      Act("setHistory", <<>>),
      Act("setLastImage", Null),
      Act("setLoading", FALSE)>>

(* the catch and finally blocks of sendPrompt *)
failureDispatches(id, message) ==
    <<Act("appendMessage", toSystemMessage(id, ErrorPrefix \o message, TRUE)),
      Act("setLoading", FALSE)>>

(* variants of the guards: edit is the only mode refused on the OpenAI-compatible  *)
(* provider; the missing image is looked for as undefined, which it never is      *)
unsupportedModeEditOnly(type, mode) == type = "openai" /\ mode = "edit"

missingEditImageUndefined(mode, lastImageData) == mode = "edit" /\ lastImageData = Undefined

(* the guards of sendPrompt before its first dispatch *)
unsupportedMode(type, mode) == type = "openai" /\ mode \in {"edit", "search"}

(* variant: only a generation without prompt is dropped *)
emptySendGenerateOnly(trimmedPrompt, mode) == trimmedPrompt = <<>> /\ mode = "generate"

emptySend(trimmedPrompt, mode) == trimmedPrompt = <<>> /\ mode # "edit"

missingEditImage(mode, lastImageData) == mode = "edit" /\ lastImageData = Null

(* requestHandlers[Edit] rejects before it reaches the client *)
handlerRejects(kind, ctx) == kind = "EDIT" /\ ctx.lastImageData = Null

SendPrompt(mode) ==
    /\ didPersist
    /\ LET trimmedPrompt == Trim(state.prompt)
           promptText == IF state.forceImageGuidance
                         THEN applyForceImageGuidance(trimmedPrompt) ELSE trimmedPrompt
           userText == buildUserLabel(mode, promptText)
           imageDataList == Map(state.uploadedImages,
                                LAMBDA img : [data |-> img.base64, mimeType |-> img.mimeType])
           userMessage == toUserMessage(nextId, userText,
                                        Map(state.uploadedImages, LAMBDA img : img.dataUrl))
           optimistic == <<Act("appendMessage", userMessage), Act("clearUploads", <<>>),
                           Act("setPrompt", <<>>), Act("setLoading", TRUE)>>
           requestKind == resolveRequestKind(mode, Len(imageDataList) > 0)
           requestContext ==
               [promptText |-> promptText, labelledPrompt |-> userText,
                imageDataList |-> imageDataList, history |-> state.history,
                aspectRatio |-> requestAspectRatio(apiType, state),
                imageSize |-> requestImageSize(apiType, state),
                lastImageData |-> state.lastImageData, session |-> state.sessionId]
           call == requestHandlers(requestKind, requestContext, apiType)
           passes == /\ ~unsupportedMode(apiType, mode)
                     /\ ~emptySend(trimmedPrompt, mode)
                     /\ ~missingEditImage(mode, state.lastImageData)
       IN  \/ /\ unsupportedMode(apiType, mode)
              /\ CanAllocate(1)
              /\ Commit(<<Act("appendMessage", toSystemMessage(nextId, ErrUnsupported, TRUE))>>, store)
              /\ nextId' = nextId + 1
              /\ lastOp' = Op("sendPrompt", mode, "unsupported")
              /\ UNCHANGED <<inflight, netCalls>>
           \/ /\ ~unsupportedMode(apiType, mode)
              /\ emptySend(trimmedPrompt, mode)
              /\ Commit(<<>>, store)
              /\ lastOp' = Op("sendPrompt", mode, "empty")
              /\ UNCHANGED <<inflight, netCalls, nextId>>
           \/ /\ ~unsupportedMode(apiType, mode)
              /\ ~emptySend(trimmedPrompt, mode)
              /\ missingEditImage(mode, state.lastImageData)
              /\ CanAllocate(1)
              /\ Commit(<<Act("appendMessage", toSystemMessage(nextId, ErrNoImage, TRUE))>>, store)
              /\ nextId' = nextId + 1
              /\ lastOp' = Op("sendPrompt", mode, "noImage")
              /\ UNCHANGED <<inflight, netCalls>>
           \/ /\ passes
              /\ handlerRejects(requestKind, requestContext)
              /\ CanAllocate(2)
              /\ Commit(optimistic \o failureDispatches(nextId + 1, ErrNoImage), store)
              /\ nextId' = nextId + 2
              /\ lastOp' = Op("sendPrompt", mode, "rejected")
              /\ UNCHANGED <<inflight, netCalls>>
           \/ /\ passes
              /\ ~handlerRejects(requestKind, requestContext)
              /\ ~configured
              /\ CanAllocate(2)
              /\ Commit(optimistic \o failureDispatches(nextId + 1, ErrNotConfigured), store)
              /\ nextId' = nextId + 2
              /\ lastOp' = Op("sendPrompt", mode, "notConfigured")
              /\ UNCHANGED <<inflight, netCalls>>
           \/ /\ passes
              /\ ~handlerRejects(requestKind, requestContext)
              /\ configured
              /\ Len(inflight) < MaxInflight
              /\ CanAllocate(2)
              /\ Commit(optimistic, store)
              /\ nextId' = nextId + 1
              /\ inflight' = Append(inflight, call)
              /\ netCalls' = netCalls + 1
              /\ lastOp' = Op("sendPrompt", mode, "started")
    /\ UNCHANGED <<didPersist, guidancePref, storeMode, apiType, configured, uploading,
                   nextSession, clock>>

-----------------------------------------------------------------------------
(* useChatSession: sendPrompt after its `await` *)

providerResult(call, reply) ==
    IF call.client = "openai" THEN callOpenAIApi(call, reply) ELSE callGeminiApi(call, reply)

successDispatches(id, response) ==
    <<Act("appendMessage", toAssistantMessage(id, response)), Act("setHistory", response.history)>>
    \o (IF response.imageData # Null THEN <<Act("setLastImage", response.imageData)>> ELSE <<>>)
    \o <<Act("setLoading", FALSE)>>

CallSucceeds(i, client, reply) ==
    /\ i \in 1..Len(inflight)
    /\ inflight[i].client = client
    /\ Commit(successDispatches(nextId, providerResult(inflight[i], reply)), store)
    /\ nextId' = nextId + 1
    /\ inflight' = RemoveAt(inflight, i)
    /\ lastOp' = Op("response", inflight[i].op, "success")
    /\ UNCHANGED <<didPersist, guidancePref, storeMode, apiType, configured, uploading,
                   nextSession, clock, netCalls>>

CallFails(i, failure) ==
    /\ i \in 1..Len(inflight)
    /\ Commit(failureDispatches(nextId, clientError(inflight[i].client, failure)), store)
    /\ nextId' = nextId + 1
    /\ inflight' = RemoveAt(inflight, i)
    /\ lastOp' = Op("response", inflight[i].op, failure)
    /\ UNCHANGED <<didPersist, guidancePref, storeMode, apiType, configured, uploading,
                   nextSession, clock, netCalls>>

-----------------------------------------------------------------------------
(* useChatSession: the saved conversation and reset *)

(* variant: a restore that finds no snapshot also drops the pending uploads *)
restoreDispatchesClearing(saved) ==
    IF saved = <<>>
    THEN <<Act("clearUploads", <<>>),
           Act("appendMessage", toSystemMessage(nextId, ErrNoSaved, TRUE))>>
    ELSE <<[type |-> "restoreSavedConversation",
            payload |-> [savedAt |-> saved[1].savedAt, payload |-> saved[1].payload],
            env |-> [sid |-> nextSession]]>>

restoreDispatches(saved) ==
    IF saved = <<>>
    THEN <<Act("appendMessage", toSystemMessage(nextId, ErrNoSaved, TRUE))>>
    ELSE <<[type |-> "restoreSavedConversation",
            payload |-> [savedAt |-> saved[1].savedAt, payload |-> saved[1].payload],
            env |-> [sid |-> nextSession]]>>

RestoreSavedConversation ==
    /\ didPersist
    /\ LET saved == readPersistedChat(store)
           twinStore == IF Following THEN twin.store ELSE store
           commit == CommitBoth(restoreDispatches(saved), store,
                                restoreDispatches(readPersistedChat(twinStore)), twinStore, TRUE)
       IN  IF saved = <<>>
           THEN /\ CanAllocate(1)
                /\ commit
                /\ nextId' = nextId + 1
                /\ lastOp' = Op("restore", "", "none")
                /\ UNCHANGED <<guidancePref, nextSession>>
           ELSE /\ "sessionId" \in DOMAIN saved[1].payload \/ nextSession <= MaxSessions
                /\ guidancePref' =
                      IF "forceImageGuidance" \in DOMAIN saved[1].payload
                      THEN writeForceImageGuidance(guidancePref, storeMode,
                                                   saved[1].payload.forceImageGuidance)
                      ELSE guidancePref
                /\ commit
                /\ nextSession' = IF "sessionId" \in DOMAIN saved[1].payload
                                  THEN nextSession ELSE nextSession + 1
                /\ lastOp' = Op("restore", "", "restored")
                /\ UNCHANGED nextId
    /\ UNCHANGED <<didPersist, storeMode, apiType, configured, inflight, uploading,
                   clock, netCalls>>

ClearSavedConversation ==
    /\ didPersist
    /\ LET actions == <<Act("setSavedConversationMeta",
                           [hasSavedConversation |-> FALSE, savedConversationAt |-> NoStamp])>>
       IN  CommitBoth(actions, clearPersistedChat(store),
                      actions, IF Following THEN clearPersistedChat(twin.store) ELSE store, FALSE)
    /\ lastOp' = Op("clearSaved", "", "")
    /\ UNCHANGED <<didPersist, guidancePref, storeMode, apiType, configured, inflight,
                   uploading, nextId, nextSession, clock, netCalls>>

Reset(confirmed) ==
    /\ didPersist
    /\ nextSession <= MaxSessions
    /\ IF confirmed
       THEN /\ LET resetOn(slot) ==
                       <<[type |-> "reset",
                          env |-> [sid |-> nextSession, pref |-> guidancePref, slot |-> slot]]>>
                    twinSlot == IF Following THEN clearPersistedChat(twin.store) ELSE store
               IN  CommitBoth(resetOn(clearPersistedChat(store)), clearPersistedChat(store),
                              resetOn(twinSlot), twinSlot, FALSE)
            /\ nextSession' = nextSession + 1
            /\ lastOp' = Op("reset", "", "confirmed")
       ELSE /\ Commit(<<>>, store)
            /\ lastOp' = Op("reset", "", "declined")
            /\ UNCHANGED nextSession
    /\ UNCHANGED <<didPersist, guidancePref, storeMode, apiType, configured, inflight,
                   uploading, nextId, clock, netCalls>>

-----------------------------------------------------------------------------
(* The environment: settings dialog, store behaviour, time *)

SetApiType(type) ==
    /\ apiType # type
    /\ apiType' = type
    /\ lastOp' = Op("setApiType", "", type)
    /\ lastWrite' = NoWrite
    /\ UNCHANGED <<twin, state, didPersist, store, guidancePref, storeMode, configured, inflight,
                   uploading, nextId, nextSession, clock, netCalls>>

SetConfigured(value) ==
    /\ configured # value
    /\ configured' = value
    /\ lastOp' = Op("setConfigured", "", "")
    /\ lastWrite' = NoWrite
    /\ UNCHANGED <<twin, state, didPersist, store, guidancePref, storeMode, apiType, inflight,
                   uploading, nextId, nextSession, clock, netCalls>>

SetStoreMode(mode) ==
    /\ storeMode # mode
    /\ storeMode' = mode
    /\ lastOp' = Op("setStoreMode", "", mode)
    /\ lastWrite' = NoWrite
    /\ UNCHANGED <<twin, state, didPersist, store, guidancePref, apiType, configured, inflight,
                   uploading, nextId, nextSession, clock, netCalls>>

Tick ==
    /\ clock < MaxClock
    /\ clock' = clock + 1
    /\ lastOp' = Op("tick", "", "")
    /\ lastWrite' = NoWrite
    /\ UNCHANGED <<twin, state, didPersist, store, guidancePref, storeMode, apiType, configured,
                   inflight, uploading, nextId, nextSession, netCalls>>

-----------------------------------------------------------------------------
(* Specifications *)

Files(n) == [i \in 1..n |-> PngFile]

(* replies of the provider used where the reply's shape is not the subject *)
CoreReplies ==
    {<<>>,
     <<ThoughtPart(<<"t">>), TextPart(<<"r">>), InlinePart("image/png", "g1")>>,
     <<InlinePart("image/png", "g2")>>}

(* Spec: the session under overlapping sends, responses and deletions *)
Next ==
    \/ Mount
    \/ SetPrompt(<<"a">>)
    \/ \E mode \in {"generate", "edit"} : SendPrompt(mode)
    \/ \E i \in 1..MaxInflight : \E reply \in CoreReplies : CallSucceeds(i, "gemini", reply)
    \/ \E i \in 1..MaxInflight : \E failure \in {"network", "timeout"} : CallFails(i, failure)
    \/ \E id \in 1..MaxIds : DeleteMessage(id)

Spec == Init /\ [][Next]_vars

(* SpecRouter: every mode against both providers, with pending uploads *)
NextRouter ==
    \/ Mount
    \/ SetPrompt(<<"a">>)
    \/ (uploading = <<>> /\ inflight = <<>> /\ AddUploadsBegin(Files(1), MaxBatch))
    \/ \E i \in 1..MaxUploading : AddUploadsEnd(i)
    \/ \E mode \in Modes : SendPrompt(mode)
    \/ \E i \in 1..MaxInflight : CallSucceeds(i, "gemini", <<InlinePart("image/png", "g1")>>)
    \/ \E i \in 1..MaxInflight :
         CallSucceeds(i, "openai", [choice |-> TRUE, content |-> <<"r">>, reasoning |-> <<>>])
    \/ \E type \in {"gemini", "openai"} : SetApiType(type)

SpecRouter == Init /\ [][NextRouter]_vars

(* SpecUploads: upload batches up to and beyond the limit, overlapping *)
BatchSizes == {7, MaxUploads + 2}

NextUploads ==
    \/ Mount
    \/ SetPrompt(<<"a">>)
    \/ \E n \in BatchSizes : AddUploadsBegin(Files(n), 3 * MaxUploads)
    \/ \E i \in 1..MaxUploading : AddUploadsEnd(i)
    \/ SendPrompt("generate")

SpecUploads == Init /\ [][NextUploads]_vars

(* SpecPersist: the snapshot store under full, slimmed and failing writes *)
NextPersist ==
    \/ Mount
    \/ SetPrompt(<<"a">>)
    \/ SendPrompt("generate")
    \/ \E i \in 1..MaxInflight : \E reply \in CoreReplies \ {<<>>} : CallSucceeds(i, "gemini", reply)
    \/ \E mode \in {"ok", "quota"} : SetStoreMode(mode)
    \/ Tick
    \/ (uploading = <<>> /\ AddUploadsBegin(Files(1), MaxBatch))
    \/ \E i \in 1..MaxUploading : AddUploadsEnd(i)

SpecPersist == Init /\ [][NextPersist]_vars

(* SpecStart: the application starts on a slot left by an earlier run, by *)
(* another version or by something else                                   *)
SavedAt == 0
SavedIds == 11..16

(* a timeline as an earlier run can have saved it *)
SavedTimeline ==
    <<toUserMessage(11, <<>>, <<[scheme |-> "blob", mime |-> "", data |-> ""]>>),
      toSystemMessage(12, ErrNoImage, TRUE),
      toAssistantMessage(13, [text |-> <<>>, parts |-> <<[text |-> <<"t">>, thought |-> TRUE]>>,
                              imageData |-> Null]),
      toUserMessage(14, <<"a">>, <<[scheme |-> "blob", mime |-> "", data |-> ""],
                                   DataUrl("image/png", "u1")>>),
      toAssistantMessage(15, [text |-> <<"t", "\n", "\n", "r">>,
                              parts |-> <<[text |-> <<"t">>, thought |-> TRUE],
                                          [text |-> <<"r">>, thought |-> FALSE],
                                          [text |-> <<"s">>, thought |-> FALSE]>>,
                              imageData |-> "g1"]),
      toUserMessage(16, <<>>, <<DataUrl("image/jpeg", "u2")>>)>>

SavedPayload ==
    [sessionId |-> 1, messages |-> SavedTimeline,
     history |-> rebuildHistoryFromMessages(SavedTimeline),
     prompt |-> <<"a">>, aspectRatio |-> "16:9", imageSize |-> "4K",
     forceImageGuidance |-> TRUE, lastImageData |-> "g1"]

SavedChat == StringifyChat(SavedAt, SavedPayload).value

Without(j, key) == [k \in DOMAIN j \ {key} |-> j[k]]

ValidSlots ==
    {[kind |-> "json", value |-> SavedChat],
     [kind |-> "json", value |-> [SavedChat EXCEPT !.payload = NoKeys]]}

CorruptSlots ==
    {NoItem, EmptyItem, Garbage, Unreadable,
     [kind |-> "json", value |-> Scalar],
     [kind |-> "json", value |-> [SavedChat EXCEPT !.version = 2]],
     [kind |-> "json", value |-> Without(SavedChat, "version")],
     [kind |-> "json", value |-> Without(SavedChat, "savedAt")],
     [kind |-> "json", value |-> [SavedChat EXCEPT !.savedAt = NotAString]],
     [kind |-> "json", value |-> [SavedChat EXCEPT !.savedAt = NoStamp]],
     [kind |-> "json", value |-> Without(SavedChat, "payload")],
     [kind |-> "json", value |-> [SavedChat EXCEPT !.payload = Scalar]]}

InitStart ==
    /\ store \in ValidSlots \cup CorruptSlots
    /\ guidancePref = "none"
    /\ storeMode \in IF store = Unreadable THEN {"broken"} ELSE {"ok", "broken"}
    /\ apiType = "gemini"
    /\ configured = TRUE
    /\ state = createInitialState([sid |-> 1, pref |-> "none", slot |-> store])
    /\ didPersist = FALSE
    /\ inflight = <<>>
    /\ uploading = <<>>
    /\ nextId = 1
    /\ nextSession = 2
    /\ clock = 1
    /\ netCalls = 0
    /\ lastOp = Op("init", "", "")
    /\ lastWrite = NoWrite
    /\ twin = NoTwin

NextStart ==
    \/ Mount
    \/ SetPrompt(<<"b">>)
    \/ RestoreSavedConversation
    \/ \E id \in (1..MaxIds) \cup SavedIds : DeleteMessage(id)

SpecStart == InitStart /\ [][NextStart]_vars

(* SpecTwin: a session whose store refuses writes, beside its twin whose *)
(* store takes them all, up to the first restore of a saved conversation *)
InitTwin ==
    /\ store = NoItem
    /\ guidancePref = "none"
    /\ storeMode \in {"ok", "quota", "broken"}
    /\ apiType = "gemini"
    /\ configured = TRUE
    /\ state = createInitialState([sid |-> 1, pref |-> "none", slot |-> NoItem])
    /\ didPersist = FALSE
    /\ inflight = <<>>
    /\ uploading = <<>>
    /\ nextId = 1
    /\ nextSession = 2
    /\ clock = 0
    /\ netCalls = 0
    /\ lastOp = Op("init", "", "")
    /\ lastWrite = NoWrite
    /\ twin = [on |-> TRUE, state |-> state, store |-> store, restored |-> FALSE]

NextTwin ==
    \/ Mount
    \/ (Following /\ SetPrompt(<<"a">>))
    \/ (Following /\ SendPrompt("generate"))
    \/ (Following /\ \E i \in 1..MaxInflight :
                        CallSucceeds(i, "gemini", <<InlinePart("image/png", "g1")>>))
    \/ (Following /\ \E i \in 1..MaxInflight : CallFails(i, "network"))
    \/ (Following /\ \E id \in 1..MaxIds : DeleteMessage(id))
    \/ (Following /\ RestoreSavedConversation)
    \/ (Following /\ \E confirmed \in BOOLEAN : Reset(confirmed))

SpecTwin == InitTwin /\ [][NextTwin]_vars

(* SpecThought: replies carrying reasoning, through both adapters, then *)
(* deleted from and restored                                           *)
NextThought ==
    \/ Mount
    \/ SetPrompt(<<"a">>)
    \/ (inflight = <<>> /\ SendPrompt("generate"))
    \/ \E i \in 1..MaxInflight :
         CallSucceeds(i, "gemini", <<ThoughtPart(<<"t">>), TextPart(<<"r">>),
                                     InlinePart("image/png", "g1")>>)
    \/ \E i \in 1..MaxInflight :
         CallSucceeds(i, "openai", [choice |-> TRUE, content |-> <<"r">>, reasoning |-> <<"t">>])
    \/ \E type \in {"gemini", "openai"} : SetApiType(type)
    \/ \E id \in 1..MaxIds : DeleteMessage(id)
    \/ RestoreSavedConversation

SpecThought == Init /\ [][NextThought]_vars

(* SpecReset: the saved conversation restored, forgotten and reset *)
InitReset ==
    /\ InitStart
    /\ storeMode = "broken" => store = NoItem
    /\ store \in {NoItem, [kind |-> "json", value |-> SavedChat],
                  [kind |-> "json", value |-> [SavedChat EXCEPT !.version = 2]]}

NextReset ==
    \/ Mount
    \/ SetPrompt(<<"a">>)
    \/ RestoreSavedConversation
    \/ SetForceImageGuidance(TRUE)
    \/ \E confirmed \in BOOLEAN : Reset(confirmed)
    \/ (uploading = <<>> /\ inflight = <<>> /\ state.uploadedImages = <<>>
          /\ AddUploadsBegin(Files(1), MaxBatch))
    \/ \E i \in 1..MaxUploading : AddUploadsEnd(i)
    \/ (inflight = <<>> /\ SendPrompt("generate"))
    \/ \E i \in 1..MaxInflight : CallSucceeds(i, "gemini", <<InlinePart("image/png", "g2")>>)

SpecReset == InitReset /\ [][NextReset]_vars

(* SpecReplies: exchanges with both adapters over every shape of reply *)
NextReplies ==
    \/ Mount
    \/ SetPrompt(<<"a">>)
    \/ \E type \in {"gemini", "openai"} : SetApiType(type)
    \/ (inflight = <<>> /\ SendPrompt("generate"))
    \/ \E i \in 1..MaxInflight : \E reply \in GeminiReplies : CallSucceeds(i, "gemini", reply)
    \/ \E i \in 1..MaxInflight : \E content \in MarkdownReplies :
         CallSucceeds(i, "openai", [choice |-> TRUE, content |-> content, reasoning |-> <<>>])

SpecReplies == Init /\ [][NextReplies]_vars

(* SpecFailure: sends with pending uploads whose calls fail, overlapping *)
(* with other sends and with answers                                    *)
NextFailure ==
    \/ Mount
    \/ SetPrompt(<<"a">>)
    \/ (uploading = <<>> /\ state.uploadedImages = <<>> /\ AddUploadsBegin(Files(1), MaxBatch))
    \/ \E i \in 1..MaxUploading : AddUploadsEnd(i)
    \/ SendPrompt("generate")
    \/ \E i \in 1..MaxInflight : CallSucceeds(i, "gemini", <<InlinePart("image/png", "g1")>>)
    \/ \E i \in 1..MaxInflight : \E failure \in Failures : CallFails(i, failure)

SpecFailure == Init /\ [][NextFailure]_vars

(* SpecSettings: sends of every mode under both provider types, with the *)
(* connection configured or not and the generation options changed       *)
NextSettings ==
    \/ Mount
    \/ SetPrompt(<<"a">>)
    \/ SetApiType("openai")
    \/ SetConfigured(FALSE)
    \/ SetAspectRatio("16:9")
    \/ SetImageSize("4K")
    \/ \E mode \in Modes : (inflight = <<>> /\ SendPrompt(mode))
    \/ \E i \in 1..MaxInflight : CallSucceeds(i, "gemini", <<InlinePart("image/png", "g1")>>)
    \/ \E i \in 1..MaxInflight :
         CallSucceeds(i, "openai", [choice |-> TRUE, content |-> <<"r">>, reasoning |-> <<>>])

SpecSettings == Init /\ [][NextSettings]_vars

(* SpecExchanges: exchanges of every mode with the Gemini adapter, one at *)
(* a time, answered with an image or with nothing, and no deletion      *)
NextExchanges ==
    \/ Mount
    \/ SetPrompt(<<"a">>)
    \/ (uploading = <<>> /\ inflight = <<>> /\ state.uploadedImages = <<>>
          /\ AddUploadsBegin(Files(1), MaxBatch))
    \/ \E i \in 1..MaxUploading : AddUploadsEnd(i)
    \/ \E mode \in Modes : (inflight = <<>> /\ SendPrompt(mode))
    \/ \E i \in 1..MaxInflight : \E reply \in {<<InlinePart("image/png", "g1")>>, <<>>} :
         CallSucceeds(i, "gemini", reply)

SpecExchanges == Init /\ [][NextExchanges]_vars

(* SpecContents: sends from a restored conversation whose provider history *)
(* holds thoughts, images of the model, entries without segment and an     *)
(* empty text                                                              *)
RichHistory ==
    <<[role |-> "user", parts |-> <<TextPart(<<"a">>), InlinePart("image/png", "u1")>>],
      [role |-> "model", parts |-> <<ThoughtPart(<<"t">>), TextPart(<<"r">>),
                                     InlinePart("image/png", "g1")>>],
      [role |-> "model", parts |-> <<InlinePart("image/png", "g1")>>],
      [role |-> "model", parts |-> <<>>],
      [role |-> "user", parts |-> <<TextPart(<<>>), InlinePart("image/jpeg", "u2")>>]>>

RichChat == [SavedChat EXCEPT !.payload.history = Map(RichHistory, EntryToJson)]

InitContents ==
    /\ store = [kind |-> "json", value |-> RichChat]
    /\ guidancePref = "none"
    /\ storeMode = "ok"
    /\ apiType = "gemini"
    /\ configured = TRUE
    /\ state = createInitialState([sid |-> 1, pref |-> "none", slot |-> store])
    /\ didPersist = FALSE
    /\ inflight = <<>>
    /\ uploading = <<>>
    /\ nextId = 1
    /\ nextSession = 2
    /\ clock = 1
    /\ netCalls = 0
    /\ lastOp = Op("init", "", "")
    /\ lastWrite = NoWrite
    /\ twin = NoTwin

NextContents ==
    \/ Mount
    \/ SetPrompt(<<"b">>)
    \/ RestoreSavedConversation
    \/ (inflight = <<>> /\ SendPrompt("generate"))
    \/ \E i \in 1..MaxInflight :
         CallSucceeds(i, "gemini", <<ThoughtPart(<<"t">>), TextPart(<<"r">>),
                                     InlinePart("image/png", "g1")>>)
    \/ \E id \in 1..MaxIds : DeleteMessage(id)

SpecContents == InitContents /\ [][NextContents]_vars

-----------------------------------------------------------------------------
(* Properties *)

(* C1: at most one provider call is outstanding in every reachable state; a *)
(* sendPrompt invoked while a call is outstanding starts no further call.   *)
AtMostOneCallInFlight == Len(inflight) <= 1

(* C2: lastImageData equals the imageData of the last assistant message of  *)
(* the timeline that has a non-empty imageData, and is null when there is   *)
(* none, after any sequence of sends, failed sends and deletions.           *)
LastImageTracksTimeline ==
    LET withImage == {i \in 1..Len(state.messages) :
                        /\ state.messages[i].role = "assistant"
                        /\ state.messages[i].imageData \notin {Undefined, ""}}
        latest == CHOOSE i \in withImage : \A k \in withImage : k <= i
    IN  state.lastImageData =
            IF withImage = {} THEN Null ELSE state.messages[latest].imageData

(* two calls answered, the later answer deleted: the earlier image is current again *)
RevertedToEarlierImage ==
    /\ lastOp.name = "deleteMessage"
    /\ netCalls = 2 /\ inflight = <<>>
    /\ state.lastImageData = "g1"
    /\ \A i \in 1..Len(state.messages) : state.messages[i].role # "system"
    /\ Cardinality({i \in 1..Len(state.messages) : state.messages[i].role = "assistant"}) = 1

(* C3: after deleteMessage(X) the timeline is the old one without X and the *)
(* provider history is rebuildHistoryFromMessages of that timeline, whatever *)
(* the history was before the deletion.                                      *)
DeleteRebuildsHistory ==
    [][lastOp'.name = "deleteMessage" =>
         \E id \in 1..MaxIds :
            LET rest == SelectSeq(state.messages, LAMBDA m : m.id # id)
            IN  /\ state'.messages = rest
                /\ state'.history = rebuildHistoryFromMessages(rest)]_vars

(* a deletion next to an answer the provider history never held: the reply *)
(* had no parts, so the adapter returned the history without a model entry *)
DeletedBesideEmptyAnswer ==
    /\ lastOp.name = "deleteMessage"
    /\ inflight = <<>>
    /\ Len(state.messages) >= 2
    /\ \E i \in 1..Len(state.messages) :
          /\ state.messages[i].role = "assistant"
          /\ state.messages[i].text = <<>>
          /\ state.messages[i].imageData = Undefined
    /\ \E i \in 1..Len(state.history) : state.history[i].role = "model"

(* C4: sendPrompt('edit') while lastImageData is null starts no provider   *)
(* call and appends exactly one message, a system message with isError; it *)
(* leaves loading, the prompt and the pending uploads as they were.        *)
EditWithoutImageOnlyReports ==
    [][(lastOp'.name = "sendPrompt" /\ lastOp'.mode = "edit" /\ state.lastImageData = Null) =>
         /\ netCalls' = netCalls
         /\ inflight' = inflight
         /\ Len(state'.messages) = Len(state.messages) + 1
         /\ SubSeq(state'.messages, 1, Len(state.messages)) = state.messages
         /\ state'.messages[Len(state'.messages)].role = "system"
         /\ state'.messages[Len(state'.messages)].isError
         /\ state'.loading = state.loading
         /\ state'.prompt = state.prompt
         /\ state'.uploadedImages = state.uploadedImages]_vars

(* an edit refused for want of an image, with a prompt typed and an upload pending *)
EditRefusedWithDraft ==
    /\ lastOp = Op("sendPrompt", "edit", "noImage")
    /\ state.lastImageData = Null
    /\ state.prompt # <<>>
    /\ Len(state.uploadedImages) > 0
    /\ ~state.loading

(* C5: with provider type 'openai', sendPrompt in mode edit or search makes *)
(* no provider call and appends exactly one system error message; prompt,   *)
(* uploads, history, lastImageData and loading are unchanged.               *)
UnsupportedModeOnlyReports ==
    [][(lastOp'.name = "sendPrompt" /\ lastOp'.mode \in {"edit", "search"} /\ apiType = "openai") =>
         /\ netCalls' = netCalls
         /\ inflight' = inflight
         /\ Len(state'.messages) = Len(state.messages) + 1
         /\ SubSeq(state'.messages, 1, Len(state.messages)) = state.messages
         /\ state'.messages[Len(state'.messages)].role = "system"
         /\ state'.messages[Len(state'.messages)].isError
         /\ state'.prompt = state.prompt
         /\ state'.uploadedImages = state.uploadedImages
         /\ state'.history = state.history
         /\ state'.lastImageData = state.lastImageData
         /\ state'.loading = state.loading]_vars

(* a search refused after the provider type was switched in a session that *)
(* already holds an answer, an image, a typed prompt and a pending upload  *)
SearchRefusedAfterSwitch ==
    /\ lastOp = Op("sendPrompt", "search", "unsupported")
    /\ apiType = "openai"
    /\ state.history # <<>>
    /\ state.lastImageData # Null
    /\ state.prompt # <<>>
    /\ Len(state.uploadedImages) > 0

(* C6: a sendPrompt that ended in a handled failure leaves loading false. *)
FailureReleasesLoading ==
    (lastOp.name = "sendPrompt"
        /\ lastOp.outcome \in {"unsupported", "noImage", "rejected", "notConfigured"})
    => ~state.loading

(* C7: the pending uploads never exceed 14. *)
UploadsWithinLimit == Len(state.uploadedImages) <= MaxUploads

(* C8: an addUploads call of N files that no other addUploads call overlaps, *)
(* invoked with k <= 14 pending uploads, appends min(N, 14 - k) uploads and  *)
(* appends one system error message when N > 14 - k, none otherwise.         *)
SingleBatchAdmission ==
    [][(lastOp'.name = "addUploads" /\ lastOp'.outcome = "single"
            /\ lastOp'.before <= MaxUploads) =>
         LET room == MaxUploads - lastOp'.before
             admitted == IF lastOp'.n < room THEN lastOp'.n ELSE room
             added == Len(state'.messages) - Len(state.messages)
         IN  /\ Len(state'.uploadedImages) = Len(state.uploadedImages) + admitted
             /\ SubSeq(state'.uploadedImages, 1, Len(state.uploadedImages)) = state.uploadedImages
             /\ added = (IF lastOp'.n > room THEN 1 ELSE 0)
             /\ added = 1 => /\ state'.messages[Len(state'.messages)].role = "system"
                             /\ state'.messages[Len(state'.messages)].isError]_vars

(* 16 files on an empty strip: 14 admitted and one notice *)
SixteenOnEmpty ==
    /\ lastOp.name = "addUploads"
    /\ lastOp.outcome = "single"
    /\ lastOp.n = MaxUploads + 2
    /\ lastOp.before = 0
    /\ Len(state.uploadedImages) = MaxUploads
    /\ Len(state.messages) = 1
    /\ state.messages[1].role = "system" /\ state.messages[1].isError

(* C9: when the store refuses the full snapshot and takes the slimmed one,  *)
(* the stored messages carry no images and no imageData, every stored       *)
(* history entry holds exactly the non-blank text segments of the original, *)
(* the stored lastImageData is null and didFallback is true; when the store *)
(* takes the full snapshot didFallback is false.                            *)
SlimFallbackSnapshot ==
    lastWrite.op = "write" =>
        LET p == lastWrite.payload[1]
            firstOk == SetItemOk(storeMode, p)
            secondOk == storeMode = "quota"
            snap == store.value.payload
            texts(parts) == SelectSeq(parts, LAMBDA q : q.type = "text" /\ Trim(q.text) # <<>>)
        IN  /\ firstOk => ~lastWrite.didFallback
            /\ (~firstOk /\ secondOk) =>
                 /\ lastWrite.didFallback
                 /\ store.kind = "json"
                 /\ Len(snap.messages) = Len(p.messages)
                 /\ \A i \in 1..Len(snap.messages) :
                       /\ "images" \notin DOMAIN snap.messages[i]
                       /\ "imageData" \notin DOMAIN snap.messages[i]
                       /\ snap.messages[i].id = p.messages[i].id
                 /\ Len(snap.history) = Len(p.history)
                 /\ \A i \in 1..Len(snap.history) :
                       /\ snap.history[i].role = p.history[i].role
                       /\ Len(snap.history[i].parts) = Len(texts(p.history[i].parts))
                       /\ \A k \in 1..Len(snap.history[i].parts) :
                             /\ DOMAIN snap.history[i].parts[k] = {"text"}
                             /\ snap.history[i].parts[k].text # <<>>
                             /\ snap.history[i].parts[k].text = texts(p.history[i].parts)[k].text
                 /\ snap.lastImageData = Null

(* a fallback write of a conversation holding an upload, a generated image *)
(* and inline data in the provider history                                 *)
SlimFallbackTaken ==
    /\ lastWrite.op = "write"
    /\ storeMode = "quota"
    /\ lastWrite.didFallback
    /\ lastWrite.payload[1].lastImageData # Null
    /\ \E i \in 1..Len(lastWrite.payload[1].messages) :
          lastWrite.payload[1].messages[i].images # <<>>
    /\ \E i \in 1..Len(lastWrite.payload[1].messages) :
          lastWrite.payload[1].messages[i].imageData # Undefined
    /\ \E i \in 1..Len(lastWrite.payload[1].history) :
          \E k \in 1..Len(lastWrite.payload[1].history[i].parts) :
             lastWrite.payload[1].history[i].parts[k].type = "inline"

(* C10: when the store takes the full snapshot, reading the slot back gives *)
(* version 1, the savedAt the write returned and a payload equal to the one *)
(* written.                                                                 *)
WriteThenReadRoundTrip ==
    (lastWrite.op = "write" /\ SetItemOk(storeMode, lastWrite.payload[1])) =>
        LET saved == readPersistedChat(store)
        IN  /\ saved # <<>>
            /\ saved[1].version = 1
            /\ saved[1].savedAt = lastWrite.savedAt
            /\ [saved[1].payload EXCEPT
                    !.messages = Map(saved[1].payload.messages, MessageFromJson),
                    !.history = Map(saved[1].payload.history, EntryFromJson)]
               = lastWrite.payload[1]

(* a full write of a conversation with an upload, segments, a thought and an image *)
FullWriteOfRichConversation ==
    /\ lastWrite.op = "write"
    /\ SetItemOk(storeMode, lastWrite.payload[1])
    /\ ~lastWrite.didFallback
    /\ lastWrite.payload[1].lastImageData # Null
    /\ \E i \in 1..Len(lastWrite.payload[1].messages) :
          lastWrite.payload[1].messages[i].images # <<>>
    /\ \E i \in 1..Len(lastWrite.payload[1].messages) :
          /\ lastWrite.payload[1].messages[i].imageData # Undefined
          /\ lastWrite.payload[1].messages[i].parts # <<>>

-----------------------------------------------------------------------------
(* C11 *)

(* the slot contents the read has to answer with null *)
InvalidSnapshot(slot) ==
    \/ slot.kind \in {"none", "empty"}
    \/ slot.kind = "garbage"
    \/ slot.kind = "throws"
    \/ /\ slot.kind = "json"
       /\ \/ "version" \notin DOMAIN slot.value
          \/ slot.value.version # 1
          \/ "savedAt" \notin DOMAIN slot.value
          \/ ~IsString(slot.value.savedAt)
          \/ "payload" \notin DOMAIN slot.value
          \/ "scalar" \in DOMAIN slot.value.payload

(* C11: readPersistedChat answers null, and raises nothing, on a slot that  *)
(* is missing or empty, is no JSON, has a version other than 1, lacks a     *)
(* string savedAt or an object payload, or cannot be read; the restore that *)
(* reads such a slot takes the no-snapshot path.                            *)
InvalidSnapshotReadsNull ==
    [][/\ InvalidSnapshot(store) => readPersistedChat(store) = <<>>
       /\ (InvalidSnapshot(store) /\ lastOp'.name = "restore") => lastOp'.outcome = "none"]_vars

(* a restore has read a snapshot of version 2, which is still in the slot *)
OtherVersionRead ==
    /\ lastOp = Op("restore", "", "none")
    /\ store.kind = "json"
    /\ "version" \in DOMAIN store.value
    /\ store.value.version = 2
    /\ readPersistedChat(store) = <<>>

-----------------------------------------------------------------------------
(* C12 *)

(* the conversational part of the state *)
Conversation(s) ==
    [messages |-> s.messages, history |-> s.history, lastImageData |-> s.lastImageData,
     loading |-> s.loading]

-----------------------------------------------------------------------------
(* C13 *)

(* C13: once the persistence effect has settled, hasSavedConversation is   *)
(* true only if the snapshot slot holds a valid snapshot, and an effect in *)
(* which the full and the fallback write both failed leaves no saved flag  *)
(* with a savedAt behind.                                                  *)
SavedFlagReflectsStore ==
    /\ state.hasSavedConversation => readPersistedChat(store) # <<>>
    /\ (lastWrite.op = "write" /\ lastWrite.stored = "none")
           => ~(state.hasSavedConversation /\ state.savedConversationAt = lastWrite.savedAt)

-----------------------------------------------------------------------------
(* C14 *)

(* C14: when the application starts on a valid stored snapshot, the initial *)
(* state reports hasSavedConversation with the snapshot's savedAt, and the  *)
(* first run of the persistence effect writes nothing and removes nothing.  *)
StartKeepsSnapshot ==
    [][(~didPersist /\ readPersistedChat(store) # <<>>)
         => /\ state.hasSavedConversation
            /\ state.savedConversationAt = store.value.savedAt
            /\ didPersist' => (store' = store /\ lastWrite' = NoWrite /\ state' = state)]_vars

(* the first effect run is over and the snapshot found at the start is intact *)
StartedOnSnapshot ==
    /\ lastOp = Op("mount", "", "")
    /\ didPersist
    /\ store = [kind |-> "json", value |-> SavedChat]
    /\ state.hasSavedConversation
    /\ state.savedConversationAt = SavedAt
    /\ state.messages = <<>>

-----------------------------------------------------------------------------
(* C15 *)

(* C15: restoreSavedConversation on a slot without a valid snapshot leaves *)
(* sessionId, history, prompt, the options, the pending uploads,           *)
(* lastImageData and loading as they were and appends exactly one system   *)
(* notice with isError to the timeline.                                    *)
RestoreWithoutSnapshotOnlyReports ==
    [][(lastOp'.name = "restore" /\ readPersistedChat(store) = <<>>)
         => /\ state'.sessionId = state.sessionId
            /\ state'.history = state.history
            /\ state'.prompt = state.prompt
            /\ state'.aspectRatio = state.aspectRatio
            /\ state'.imageSize = state.imageSize
            /\ state'.forceImageGuidance = state.forceImageGuidance
            /\ state'.uploadedImages = state.uploadedImages
            /\ state'.lastImageData = state.lastImageData
            /\ state'.loading = state.loading
            /\ Len(state'.messages) = Len(state.messages) + 1
            /\ SubSeq(state'.messages, 1, Len(state.messages)) = state.messages
            /\ state'.messages[Len(state'.messages)].role = "system"
            /\ state'.messages[Len(state'.messages)].isError]_vars

(* a restore found nothing while a conversation and an upload were there *)
RestoreRefusedMidConversation ==
    /\ lastOp = Op("restore", "", "none")
    /\ readPersistedChat(store) = <<>>
    /\ Len(state.history) > 0
    /\ state.lastImageData = "g2"
    /\ Len(state.uploadedImages) > 0
    /\ state.messages[Len(state.messages)].text = ErrNoSaved

-----------------------------------------------------------------------------
(* C16 *)

(* what a confirmed reset leaves behind, the guidance toggle apart *)
StartsOver(pre, post, slot) ==
    /\ post.messages = <<>>
    /\ post.history = <<>>
    /\ post.prompt = <<>>
    /\ post.uploadedImages = <<>>
    /\ post.lastImageData = Null
    /\ ~post.loading
    /\ post.aspectRatio = "1:1"
    /\ post.imageSize = "2K"
    /\ post.sessionId # pre.sessionId
    /\ slot = NoItem
    /\ ~post.hasSavedConversation

ResetConfirmed == lastOp'.name = "reset" /\ lastOp'.outcome = "confirmed"
ResetDeclined == lastOp'.name = "reset" /\ lastOp'.outcome = "declined"

-----------------------------------------------------------------------------
(* C17 *)

(* the routing table, row by row *)
RoutingTable ==
    /\ \A hasUploads \in BOOLEAN : resolveRequestKind("edit", hasUploads) = "EDIT"
    /\ \A mode \in Modes \ {"edit"} : resolveRequestKind(mode, TRUE) = "COMPOSITE"
    /\ resolveRequestKind("search", FALSE) = "SEARCH"
    /\ \A mode \in Modes \ {"edit", "search"} : resolveRequestKind(mode, FALSE) = "GENERATE"

OperationOf(mode, hasUploads) ==
    CASE mode = "edit" -> "editImage"
      [] mode # "edit" /\ hasUploads -> "compositeImages"
      [] mode = "search" /\ ~hasUploads -> "generateWithSearch"
      [] OTHER -> "generateImage"

(* C17: resolveRequestKind gives Edit for mode edit, else Composite when    *)
(* uploads are pending, else Search for mode search, else Generate, and the *)
(* provider operation a send invokes is the one of that kind: editImage,    *)
(* compositeImages, generateWithSearch, generateImage.                      *)
SendInvokesRoutedOperation ==
    [][/\ RoutingTable
       /\ (lastOp'.name = "sendPrompt" /\ lastOp'.outcome = "started")
            => /\ Len(inflight') = Len(inflight) + 1
               /\ inflight'[Len(inflight')].op =
                     OperationOf(lastOp'.mode, Len(state.uploadedImages) > 0)]_vars

(* an edit was sent while an upload was pending, and went out as editImage *)
EditSentWithUploadPending ==
    /\ lastOp = Op("sendPrompt", "edit", "started")
    /\ inflight # <<>>
    /\ inflight[Len(inflight)].op = "editImage"
    /\ state.messages[Len(state.messages)].role = "user"
    /\ state.messages[Len(state.messages)].images # <<>>

-----------------------------------------------------------------------------
(* C18 *)

(* C18: no segment of the provider history is marked as a thought, whether *)
(* the history comes from an exchange through the gemini adapter (reply    *)
(* with thought parts) or the openai adapter (reply with                   *)
(* reasoning_content), from a deleteMessage, or from restoring a snapshot  *)
(* the application saved itself.                                           *)
NoThoughtInHistory ==
    \A i \in 1..Len(state.history) :
        \A k \in 1..Len(state.history[i].parts) : ~state.history[i].parts[k].thought

ShowsThought(msg) == \E k \in 1..Len(msg.parts) : msg.parts[k].thought

(* a conversation whose timeline shows reasoning was restored from the slot, *)
(* with the model's turn in the history                                      *)
RestoredAfterReasoning ==
    /\ lastOp = Op("restore", "", "restored")
    /\ \E i \in 1..Len(state.messages) : ShowsThought(state.messages[i])
    /\ \E i \in 1..Len(state.history) : state.history[i].role = "model"

-----------------------------------------------------------------------------
(* C19 *)

NonSystem(messages) == SelectSeq(messages, LAMBDA m : m.role # "system")

Usable(url) == url.scheme = "data" /\ url.mime # ""

(* a message with no text and no usable image *)
Blank(msg) ==
    IF msg.role = "user"
    THEN /\ msg.text = <<>>
         /\ \A k \in 1..Len(msg.images) : ~Usable(msg.images[k])
    ELSE /\ msg.text = <<>>
         /\ \A k \in 1..Len(msg.parts) : msg.parts[k].thought \/ msg.parts[k].text = <<>>
         /\ msg.imageData \in {Undefined, ""}

(* C19: rebuildHistoryFromMessages emits no entry without segments; for a *)
(* message with no text and no usable image the entry is a single         *)
(* empty-text segment.                                                    *)
RebuiltEntriesHaveSegments ==
    lastOp.name = "deleteMessage"
      => /\ \A i \in 1..Len(state.history) : Len(state.history[i].parts) >= 1
         /\ \A i \in 1..Len(NonSystem(state.messages)) :
               Blank(NonSystem(state.messages)[i])
                 => /\ i <= Len(state.history)
                    /\ state.history[i].parts = <<TextPart(<<>>)>>

(* the history was rebuilt from a timeline holding a user message and an *)
(* answer both without text or usable image                              *)
RebuiltFromBlankMessages ==
    /\ lastOp.name = "deleteMessage"
    /\ \E i, j \in 1..Len(state.messages) :
          /\ state.messages[i].role = "user" /\ Blank(state.messages[i])
          /\ state.messages[j].role = "assistant" /\ Blank(state.messages[j])
    /\ Len(state.history) >= 3

-----------------------------------------------------------------------------
(* C20 *)

RoleOf(msg) == IF msg.role = "user" THEN "user" ELSE "model"

(* the entry carries what its message has *)
Carries(entry, msg) ==
    /\ entry.role = RoleOf(msg)
    /\ (msg.role = "user" /\ msg.text # <<>>) => entry.parts[1] = TextPart(msg.text)
    /\ (msg.role = "assistant" /\ msg.imageData \notin {Undefined, ""})
          => entry.parts[Len(entry.parts)] = InlinePart("image/png", msg.imageData)

(* C20: rebuildHistoryFromMessages is defined on every timeline and gives *)
(* exactly one entry per non-system message, in timeline order, with role *)
(* user for a user message and model for an assistant message, and        *)
(* nothing for a system message; the messages it is given stay as they    *)
(* were.                                                                  *)
RebuildFollowsTimeline ==
    [][lastOp'.name = "deleteMessage"
         => /\ Len(state'.history) = Len(NonSystem(state'.messages))
            /\ \A i \in 1..Len(state'.history) :
                  Carries(state'.history[i], NonSystem(state'.messages)[i])
            /\ state'.messages =
                  SelectSeq(state.messages,
                            LAMBDA m : \E i \in 1..Len(state'.messages) : state'.messages[i] = m)]_vars

(* the history was rebuilt from a timeline with a notice between messages *)
RebuiltAroundNotice ==
    /\ lastOp.name = "deleteMessage"
    /\ Len(state.messages) >= 4
    /\ \E i \in 2..(Len(state.messages) - 1) : state.messages[i].role = "system"
    /\ Len(state.history) = Len(state.messages) - 1
    /\ Len(state.history) >= 3

-----------------------------------------------------------------------------
(* C21 *)

(* the image segments of the well-formed attachments, in attachment order *)
AttachedSegments(msg) ==
    Map(SelectSeq(msg.images, Usable), LAMBDA url : InlinePart(url.mime, url.data))

(* C21: for a user message rebuildHistoryFromMessages emits one entry whose *)
(* first segment is a text segment with the message text (the empty string  *)
(* when there is none), followed by one image segment per attachment with a *)
(* well-formed data URL, in attachment order; other attachments are skipped *)
(* and the entry stays.                                                     *)
UserEntryIsTextThenImages ==
    lastOp.name = "deleteMessage"
      => \A i \in 1..Len(NonSystem(state.messages)) :
            NonSystem(state.messages)[i].role = "user"
              => /\ i <= Len(state.history)
                 /\ state.history[i].parts =
                       <<TextPart(NonSystem(state.messages)[i].text)>>
                         \o AttachedSegments(NonSystem(state.messages)[i])

-----------------------------------------------------------------------------
(* C22 *)

(* the texts of the structured parts that are no thoughts *)
StructuredTexts(msg) ==
    Map(SelectSeq(msg.parts, LAMBDA p : ~p.thought /\ p.text # <<>>), LAMBDA p : p.text)

AnswerText(msg) ==
    IF Len(StructuredTexts(msg)) > 0
    THEN Join(StructuredTexts(msg), <<"\n", "\n">>)
    ELSE msg.text

HasImageData(msg) == msg.imageData \notin {Undefined, ""}

-----------------------------------------------------------------------------
(* C23 *)

EmbeddedImages(text) == SelectSeq(text, LAMBDA c : c \in MarkdownImages)

WithoutEmbeddedImages(text) == SelectSeq(text, LAMBDA c : c \notin MarkdownImages)

OpenAIReply(content) == [choice |-> TRUE, content |-> content, reasoning |-> <<>>]

(* C23: for a reply text with k >= 0 embedded markdown base64 images,        *)
(* extractImageFromMarkdown returns the payload of the last one as imageData *)
(* (null when k = 0) and, as cleanText, the reply with the k images removed  *)
(* and the surrounding whitespace trimmed; the answer of the exchange shows  *)
(* both.                                                                     *)
StripsEmbeddedImages ==
    [][\A i \in 1..MaxInflight : \A content \in MarkdownReplies :
          CallSucceeds(i, "openai", OpenAIReply(content)) =>
              LET extracted == extractImageFromMarkdown(content)
                  images == EmbeddedImages(content)
                  answer == state'.messages[Len(state'.messages)]
              IN  /\ extracted.imageData =
                        IF Len(images) > 0 THEN ImagePayload(images[Len(images)]) ELSE Null
                  /\ extracted.cleanText = Trim(WithoutEmbeddedImages(content))
                  /\ answer.text = extracted.cleanText
                  /\ extracted.imageData # Null => answer.imageData = extracted.imageData]_vars

(* C23 on the replies in which no other image precedes an embedded image on *)
(* its line                                                                 *)
StripsEmbeddedImagesOnOwnLine ==
    [][\A i \in 1..MaxInflight :
       \A content \in MarkdownReplies \ {<<"MD_LINK:h1", " ", "MD_IMAGE:g1">>} :
          CallSucceeds(i, "openai", OpenAIReply(content)) =>
              LET extracted == extractImageFromMarkdown(content)
                  images == EmbeddedImages(content)
              IN  /\ extracted.imageData =
                        IF Len(images) > 0 THEN ImagePayload(images[Len(images)]) ELSE Null
                  /\ extracted.cleanText = Trim(WithoutEmbeddedImages(content))]_vars

-----------------------------------------------------------------------------
(* C24 *)

(* the response carries a part that is no thought and holds a text or an image *)
Yields(reply) ==
    \E k \in 1..Len(reply) :
        /\ ~reply[k].thought
        /\ (reply[k].type = "text" /\ reply[k].text # <<>>) \/ reply[k].type = "inline"

(* C24: the history a successful call of the Gemini adapter returns is the   *)
(* contents it sent, the sanitized previous history followed by the new user *)
(* entry, extended by one model entry exactly when the response yielded a    *)
(* text or image part that is no thought.                                    *)
GeminiHistoryGrowsByYield ==
    [][\A i \in 1..MaxInflight : \A reply \in GeminiReplies :
          CallSucceeds(i, "gemini", reply) =>
              LET call == inflight[i]
                  sent == cloneHistory(call.history)
                          \o <<[role |-> "user",
                                 parts |-> <<TextPart(call.prompt)>>
                                           \o [k \in 1..Len(call.images) |->
                                                  InlinePart(call.images[k].mimeType,
                                                             call.images[k].data)]]>>
                  returned == state'.history
              IN  IF Yields(reply)
                  THEN /\ Len(returned) = Len(sent) + 1
                       /\ SubSeq(returned, 1, Len(sent)) = sent
                       /\ returned[Len(returned)].role = "model"
                       /\ returned[Len(returned)].parts # <<>>
                  ELSE returned = sent]_vars

(* a response of thoughts only, answering a send whose previous history held *)
(* an answer with text and image: the image is not sent again and no model   *)
(* entry follows the new user entry                                          *)
ThoughtOnlyReplyAfterImage ==
    /\ lastOp = Op("response", "generateImage", "success")
    /\ Len(state.messages) = 4
    /\ state.messages[2].imageData = "g1"
    /\ state.messages[4].text = <<"t">>
    /\ Len(state.history) = 3
    /\ state.history[2] = [role |-> "model", parts |-> <<TextPart(<<"r">>)>>]
    /\ state.history[3].role = "user"

-----------------------------------------------------------------------------
(* C25 *)

AppendsOne(pre, post, role) ==
    /\ Len(post.messages) = Len(pre.messages) + 1
    /\ SubSeq(post.messages, 1, Len(pre.messages)) = pre.messages
    /\ post.messages[Len(post.messages)].role = role

(* C25: a provider call that fails or times out does not roll back the      *)
(* optimistic updates of its sendPrompt. The send appended the user's message, *)
(* emptied the prompt and cleared the pending uploads without touching      *)
(* history and lastImageData; the failure appends its notice and releases   *)
(* loading, and leaves the timeline before it, the prompt, the uploads,     *)
(* history and lastImageData as they are.                                   *)
FailureKeepsOptimisticUpdates ==
    [][/\ (lastOp'.name = "sendPrompt" /\ lastOp'.outcome = "started") =>
            /\ AppendsOne(state, state', "user")
            /\ state'.prompt = <<>>
            /\ state'.uploadedImages = <<>>
            /\ state'.history = state.history
            /\ state'.lastImageData = state.lastImageData
       /\ (lastOp'.name = "response" /\ lastOp'.outcome \in Failures) =>
            /\ AppendsOne(state, state', "system")
            /\ state'.messages[Len(state'.messages)].isError
            /\ state'.prompt = state.prompt
            /\ state'.uploadedImages = state.uploadedImages
            /\ state'.history = state.history
            /\ state'.lastImageData = state.lastImageData
            /\ ~state'.loading]_vars

(* a send with a pending upload, in a conversation that holds an answer and *)
(* its image, has timed out                                                 *)
TimedOutAfterSendWithUpload ==
    /\ lastOp = Op("response", "compositeImages", "timeout")
    /\ Len(state.messages) = 4
    /\ state.messages[3].role = "user"
    /\ state.messages[3].images # <<>>
    /\ state.messages[4].role = "system"
    /\ state.prompt = <<>>
    /\ state.uploadedImages = <<>>
    /\ Len(state.history) = 2
    /\ state.lastImageData = "g1"

-----------------------------------------------------------------------------
(* C26 *)

(* C26: while the base URL or the API key is empty, no send reaches the      *)
(* network through either adapter; a send that gets as far as the adapter    *)
(* appends the user's message and exactly one system error message, and      *)
(* leaves loading false.                                                     *)
UnconfiguredSendFailsFast ==
    [][/\ (lastOp'.name = "sendPrompt" /\ ~configured) =>
            /\ netCalls' = netCalls
            /\ inflight' = inflight
            /\ lastOp'.outcome # "started"
       /\ (lastOp'.name = "sendPrompt" /\ lastOp'.outcome = "notConfigured") =>
            /\ ~configured
            /\ Len(state'.messages) = Len(state.messages) + 2
            /\ SubSeq(state'.messages, 1, Len(state.messages)) = state.messages
            /\ state'.messages[Len(state.messages) + 1].role = "user"
            /\ state'.messages[Len(state.messages) + 2] =
                   toSystemMessage(nextId + 1, ErrorPrefix \o ErrNotConfigured, TRUE)
            /\ ~state'.loading]_vars

(* a send has failed on the unconfigured connection under each provider type *)
FailedUnconfiguredOnBothAdapters ==
    /\ lastOp = Op("sendPrompt", "generate", "notConfigured")
    /\ apiType = "openai"
    /\ netCalls = 0
    /\ Len(state.messages) = 4
    /\ state.messages[2].text = ErrorPrefix \o ErrNotConfigured
    /\ state.messages[4].text = ErrorPrefix \o ErrNotConfigured
    /\ ~state.loading

-----------------------------------------------------------------------------------------------------------------------------------------------------
(* C27 *)

(* what a reader of the slot gets back as the snapshot's payload *)
StoredPayload ==
    LET saved == readPersistedChat(store)
    IN  IF saved = <<>> THEN <<>>
        ELSE <<[saved[1].payload EXCEPT
                   !.messages = Map(saved[1].payload.messages, MessageFromJson),
                   !.history = Map(saved[1].payload.history, EntryFromJson)]>>

(* C27: on a store that accepts writes, once the effect has run after a     *)
(* change of messages, history, options, prompt or lastImageData, a         *)
(* non-empty conversation is the stored snapshot: its payload equals the    *)
(* state's sessionId, messages, history, prompt, options and lastImageData. *)
(* The slot holds that one snapshot, written last.                          *)
SnapshotEqualsConversation ==
    (didPersist /\ hasConversation(state) /\ storeMode = "ok") =>
        /\ StoredPayload = <<persistedPayload(state)>>
        /\ state.hasSavedConversation
        /\ store.value.savedAt = state.savedConversationAt

(* the prompt typed last, in a conversation with an answer, its image and *)
(* changed options                                                        *)
SnapshotAfterTypedPrompt ==
    /\ lastOp.name = "setPrompt"
    /\ lastWrite.op = "write"
    /\ state.prompt = <<"a">>
    /\ state.aspectRatio = "16:9"
    /\ state.imageSize = "4K"
    /\ state.lastImageData = "g1"
    /\ Len(state.messages) = 2
    /\ Len(state.history) = 2
    /\ StoredPayload # <<>>
    /\ StoredPayload[1].prompt = <<"a">>

-----
(* C28 *)

(* C28: under provider type 'openai' every request handed to a provider    *)
(* operation carries aspect ratio '1:1' and image size '1K' whatever the    *)
(* session holds; under 'gemini' it carries the session's aspectRatio and   *)
(* imageSize.                                                               *)
RequestCarriesProviderOptions ==
    [][(lastOp'.name = "sendPrompt" /\ lastOp'.outcome = "started") =>
          LET call == inflight'[Len(inflight')]
          IN  /\ Len(inflight') = Len(inflight) + 1
              /\ apiType = "openai" =>
                     call.client = "openai" /\ call.aspectRatio = "1:1" /\ call.imageSize = "1K"
              /\ apiType = "gemini" =>
                     /\ call.client = "gemini"
                     /\ call.aspectRatio = state.aspectRatio
                     /\ call.imageSize = state.imageSize]_vars

(* a request sent under 'openai' by a session that holds 16:9 and 4K, after *)
(* one answered under 'gemini'                                              *)
OpenAIRequestWithSessionOptions ==
    /\ lastOp.name = "sendPrompt" /\ lastOp.outcome = "started"
    /\ apiType = "openai"
    /\ state.aspectRatio = "16:9"
    /\ state.imageSize = "4K"
    /\ Len(inflight) = 1
    /\ inflight[1].aspectRatio = "1:1"
    /\ inflight[1].imageSize = "1K"
    /\ Len(inflight[1].history) = 2

-----------------------------------------------------------------------------
(* C29 *)

(* C29: after any sequence of successful exchanges with the Gemini adapter *)
(* and no deletion, the provider history equals the history rebuilt from   *)
(* the timeline.                                                           *)
HistoryIsRebuiltTimeline ==
    inflight = <<>> => state.history = rebuildHistoryFromMessages(state.messages)

(* the same for conversations of a single exchange, sent in generate mode *)
(* and answered with an image                                             *)
FirstImageExchangeIsRebuilt ==
    (/\ inflight = <<>>
     /\ Len(state.messages) = 2
     /\ state.messages[1].role = "user"
     /\ state.messages[2].role = "assistant"
     /\ state.messages[2].imageData # Undefined
     /\ lastOp.mode \in {"generateImage", "compositeImages"})
    => state.history = rebuildHistoryFromMessages(state.messages)

(* two exchanges in generate mode, both answered with an image: the history *)
(* has lost the first answer, the rebuilt history has it                    *)
SecondImageExchangeDiffers ==
    /\ inflight = <<>>
    /\ Len(state.messages) = 4
    /\ state.messages[2].imageData = "g1"
    /\ state.messages[4].imageData = "g1"
    /\ Len(state.history) = 3
    /\ Len(rebuildHistoryFromMessages(state.messages)) = 4

-----------------------------------------------------------------------------
(* C30 *)

CountOf(seq, role) == Cardinality({i \in 1..Len(seq) : seq[i].role = role})

(* C30: the provider history holds no entry derived from a message that is *)
(* no longer in the timeline, also once the response of a call that was    *)
(* outstanding during the deletion has been applied: it has no more user   *)
(* entries than the timeline has user messages, and no more model entries  *)
(* than the timeline has answers.                                          *)
HistoryHoldsOnlyTimelineEntries ==
    /\ CountOf(state.history, "user") <= CountOf(state.messages, "user")
    /\ CountOf(state.history, "model") <= CountOf(state.messages, "assistant")

-----------------------------------------------------------------------------
(* C31 *)

(* C31: loading is true in every state in which a provider call is *)
(* outstanding.                                                    *)
LoadingWhileCallOutstanding ==
    inflight # <<>> => state.loading

-----------------------------------------------------------------------------
(* C32 *)

(* C32: the result or error of a call that was sent by a session which has *)
(* since been reset or replaced appends no message to the timeline of the  *)
(* new session and leaves its history and lastImageData as they are.       *)
StaleResponseNotApplied ==
    [][lastOp'.name = "response" =>
          \A i \in 1..Len(inflight) :
              (inflight' = RemoveAt(inflight, i) /\ inflight[i].session # state.sessionId) =>
                  /\ state'.messages = state.messages
                  /\ state'.history = state.history
                  /\ state'.lastImageData = state.lastImageData]_vars

-----------------------------------------------------------------------------
(* C33 *)

(* C33: while the conversation is empty, editing the prompt or changing an *)
(* option leaves a snapshot found in the store where it is, and            *)
(* hasSavedConversation true.                                              *)
EditsKeepFoundSnapshot ==
    [][(/\ lastOp'.name \in {"setPrompt", "setAspectRatio", "setImageSize",
                             "setForceImageGuidance"}
        /\ ~hasConversation(state)
        /\ state.hasSavedConversation) =>
          /\ store' = store
          /\ state'.hasSavedConversation]_vars

-----------------------------------------------------------------------------
(* C34 *)

StoredHistory ==
    LET saved == readPersistedChat(store)
    IN  IF saved # <<>> /\ "history" \in DOMAIN saved[1].payload
        THEN Map(saved[1].payload.history, EntryFromJson) ELSE <<>>

(* C34: every provider history entry held in the session state or in the *)
(* stored snapshot has at least one segment.                             *)
HistoryEntriesHaveSegments ==
    /\ \A i \in 1..Len(state.history) : Len(state.history[i].parts) >= 1
    /\ \A i \in 1..Len(StoredHistory) : Len(StoredHistory[i].parts) >= 1

(* the same for the session state alone *)
StateEntriesHaveSegments ==
    \A i \in 1..Len(state.history) : Len(state.history[i].parts) >= 1

-----------------------------------------------------------------------------
(* C35 *)

UserEntries(history) == SelectSeq(history, LAMBDA e : e.role = "user")

WithoutThoughts(entry) == SelectSeq(entry.parts, LAMBDA q : ~q.thought)

(* the segment sent for a segment of the input *)
SentAs(out, in) ==
    /\ in.type = "inline" => out = InlinePart(in.mime, in.data)
    /\ (in.type = "text" /\ in.text # <<>>) => out = TextPart(in.text)
    /\ ~out.thought

-----------------------------------------------------------------------------
(* C36 *)

(* SpecDelete: deletions among exchanges with a typed prompt, pending *)
(* uploads, a changed aspect ratio and a call outstanding             *)
NextDelete ==
    \/ Mount
    \/ SetPrompt(<<"a">>)
    \/ SetAspectRatio("16:9")
    \/ (inflight # <<>> /\ uploading = <<>> /\ state.uploadedImages = <<>>
          /\ AddUploadsBegin(Files(1), MaxBatch))
    \/ \E i \in 1..MaxUploading : AddUploadsEnd(i)
    \/ (inflight = <<>> /\ SendPrompt("generate"))
    \/ \E i \in 1..MaxInflight : CallSucceeds(i, "gemini", <<InlinePart("image/png", "g1")>>)
    \/ \E id \in 1..MaxIds : DeleteMessage(id)

SpecDelete == Init /\ [][NextDelete]_vars

(* the fields of the session other than the timeline and what is derived from it *)
SessionFrame(s) ==
    <<s.sessionId, s.prompt, s.aspectRatio, s.imageSize, s.forceImageGuidance,
      s.uploadedImages, s.loading>>

SavedMeta(s) == <<s.hasSavedConversation, s.savedConversationAt>>

-----------------------------------------------------------------------------
(* C37 *)

(* SpecBlank: generations and searches with a prompt of blanks or of text, *)
(* with uploads pending, the guidance on, under either provider type and   *)
(* while an earlier call is outstanding                                    *)
NextBlank ==
    \/ Mount
    \/ \E p \in {<<" ">>, <<"a">>} : SetPrompt(p)
    \/ SetForceImageGuidance(TRUE)
    \/ SetApiType("openai")
    \/ (inflight # <<>> /\ uploading = <<>> /\ state.uploadedImages = <<>>
          /\ AddUploadsBegin(Files(1), MaxBatch))
    \/ \E i \in 1..MaxUploading : AddUploadsEnd(i)
    \/ \E mode \in {"generate", "search"} :
         ((inflight = <<>> \/ Trim(state.prompt) = <<>>) /\ SendPrompt(mode))
    \/ \E i \in 1..MaxInflight : CallFails(i, "network")

SpecBlank == Init /\ [][NextBlank]_vars

(* a generation or a search is sent with a prompt that trims to nothing *)
BlankSend ==
    /\ lastOp'.name = "sendPrompt"
    /\ lastOp'.mode \in {"generate", "search"}
    /\ Trim(state.prompt) = <<>>

NothingSent ==
    /\ state'.messages = state.messages
    /\ inflight' = inflight
    /\ netCalls' = netCalls
    /\ state'.prompt = state.prompt
    /\ state'.uploadedImages = state.uploadedImages
    /\ state'.loading = state.loading

(* C37, as stated: a generation or a search with a prompt that is empty   *)
(* after trimming appends no message, makes no provider call and leaves   *)
(* prompt, uploads and loading unchanged.                                 *)
BlankSendIsNoOp == [][BlankSend => NothingSent]_vars

(* C37, amended: it is so for a generation, and for a search under the    *)
(* provider type 'gemini', where the whole state and the store stay as    *)
(* they were; a search under 'openai' is refused first, whatever the      *)
(* prompt, with one system error message and no call, and prompt, uploads *)
(* and loading unchanged.                                                 *)
BlankSendIsNoOpUnlessUnsupported ==
    [][BlankSend =>
         IF unsupportedMode(apiType, lastOp'.mode)
         THEN /\ Len(state'.messages) = Len(state.messages) + 1
              /\ SubSeq(state'.messages, 1, Len(state.messages)) = state.messages
              /\ state'.messages[Len(state'.messages)].role = "system"
              /\ state'.messages[Len(state'.messages)].isError
              /\ inflight' = inflight
              /\ netCalls' = netCalls
              /\ state'.prompt = state.prompt
              /\ state'.uploadedImages = state.uploadedImages
              /\ state'.loading = state.loading
         ELSE /\ NothingSent
              /\ state' = state
              /\ store' = store]_vars

(* a search with a prompt of blanks dropped under 'gemini' while an upload *)
(* is pending, the guidance is on and an earlier call is outstanding      *)
BlankSearchDropped ==
    /\ lastOp = Op("sendPrompt", "search", "empty")
    /\ apiType = "gemini"
    /\ state.prompt = <<" ">>
    /\ Len(state.uploadedImages) = 1
    /\ state.forceImageGuidance
    /\ state.loading
    /\ inflight # <<>>

-----------------------------------------------------------------------------
(* C38 *)

(* SpecSettle: exchanges and deletions while the clock advances and the *)
(* store comes to refuse full snapshots, so that the effect writes,     *)
(* writes slimmed, rewrites at a later time and removes                 *)
NextSettle ==
    \/ Mount
    \/ SetPrompt(<<"a">>)
    \/ (inflight = <<>> /\ SendPrompt("generate"))
    \/ \E i \in 1..MaxInflight : CallSucceeds(i, "gemini", <<InlinePart("image/png", "g1")>>)
    \/ SetStoreMode("quota")
    \/ Tick
    \/ \E id \in 1..MaxIds : DeleteMessage(id)

SpecSettle == Init /\ [][NextSettle]_vars

(* what one run of the persistence effect dispatches from the rendered state s *)
EffectDispatches(s, slot) ==
    LET eff == persistEffect(s, slot, storeMode, clock)
    IN  IF eff.state = s THEN <<>>
        ELSE <<Act("setSavedConversationMeta",
                   [hasSavedConversation |-> eff.state.hasSavedConversation,
                    savedConversationAt |-> eff.state.savedConversationAt])>>

(* the number of runs of the effect that follow one render of s in which a *)
(* dependency changed: the run itself, and a further one for as long as    *)
(* the dispatch of the last run changes a dependency                       *)
RECURSIVE EffectRuns(_, _, _)
EffectRuns(s, slot, fuel) ==
    IF fuel = 0 THEN 0
    ELSE LET eff == persistEffect(s, slot, storeMode, clock)
             d == EffectDispatches(s, slot)
         IN  1 + (IF d # <<>> /\ depsChanged(s, eff.state, d)
                  THEN EffectRuns(eff.state, eff.slot, fuel - 1) ELSE 0)

(* the states the effect may run on: the session with any saved-conversation *)
(* metadata, as left by the dispatches of a handler                          *)
Rendered ==
    {[state EXCEPT !.hasSavedConversation = h, !.savedConversationAt = t] :
        h \in BOOLEAN, t \in {NoStamp} \cup (0..MaxClock)}

(* C38: one run of the persistence effect makes at most one store write or *)
(* removal and at most one dispatch, a setSavedConversationMeta, which     *)
(* changes no dependency of the effect: one run follows a state change and *)
(* no second one; and what a step records is that one write or removal.    *)
PersistEffectSettles ==
    /\ \A s \in Rendered :
          LET eff == persistEffect(s, store, storeMode, clock)
              d == EffectDispatches(s, store)
          IN  /\ Len(d) <= 1
              /\ eff.state = Dispatch(s, d)
              /\ ~depsChanged(s, eff.state, d)
              /\ EffectRuns(s, store, 3) = 1
              /\ eff.write.op \in {"none", "clear", "write"}
              /\ eff.write.op = "none" => eff.slot = store /\ d = <<>>
              /\ eff.write.op = "clear" => eff.slot = clearPersistedChat(store)
              /\ eff.write.op = "write" /\ eff.write.stored = "none" => eff.slot = store
    /\ lastWrite.op = "write" =>
          state.hasSavedConversation /\ state.savedConversationAt = lastWrite.savedAt
    /\ lastWrite.op = "clear" => ~state.hasSavedConversation

(* the effect has written a slimmed snapshot at a later time than the one *)
(* before and dispatched the new time                                     *)
EffectWroteAndDispatched ==
    /\ lastWrite.op = "write"
    /\ lastWrite.stored = "slim"
    /\ lastWrite.savedAt = MaxClock
    /\ state.savedConversationAt = MaxClock
    /\ Len(state.messages) >= 2

-----------------------------------------------------------------------------
(* C39 *)

(* SpecTimeout: sessions under either provider type, chosen before the *)
(* first send, whose calls fail in every way, overlapping other sends  *)
NextTimeout ==
    \/ Mount
    \/ SetPrompt(<<"a">>)
    \/ (netCalls = 0 /\ SetApiType("openai"))
    \/ SendPrompt("generate")
    \/ \E i \in 1..MaxInflight : \E failure \in Failures : CallFails(i, failure)

SpecTimeout == Init /\ [][NextTimeout]_vars

(* C39: a call cancelled by the deadline appends exactly one message, a   *)
(* system error message whose text is the error prefix and the timeout    *)
(* message, whichever adapter made the call; a call that fails in another *)
(* way appends a message with another text.                               *)
TimeoutIsReportedDistinctly ==
    [][\A i \in 1..MaxInflight : \A failure \in Failures :
         CallFails(i, failure) =>
            LET n == Len(state.messages)
                last == state'.messages[n + 1]
            IN  /\ inflight[i].client \in {"gemini", "openai"}
                /\ Len(state'.messages) = n + 1
                /\ SubSeq(state'.messages, 1, n) = state.messages
                /\ last.role = "system"
                /\ last.isError
                /\ (last.text = ErrorPrefix \o ErrTimeout) <=> (failure = "timeout")
                /\ clientError(inflight[i].client, "timeout")
                      \notin {clientError(inflight[i].client, f) : f \in Failures \ {"timeout"}}]_vars

(* a call of the OpenAI-compatible adapter has timed out *)
OpenAICallTimedOut ==
    /\ lastOp = Op("response", "generateImage", "timeout")
    /\ apiType = "openai"
    /\ Len(state.messages) = 2
    /\ state.messages[2].role = "system"
    /\ state.messages[2].text = ErrorPrefix \o ErrTimeout
    /\ ~state.loading

====
